---------------------------- MODULE Spec2Model ----------------------------
(***************************************************************************)
(* Crawl orchestration core of the Tamil Nadu PDS crawler                  *)
(* (src/crawai_pds_selenium.py): the targeted-lookup run                   *)
(* process_shop_list_json / find_shop_by_id, the full crawl of main, the   *)
(* navigation and extraction operations they drive and the remote site.    *)
(*                                                                         *)
(* The browser and the site are the environment.  The site is a fixed      *)
(* four-level tree (State, District, Taluk, Shop).  A click the crawler    *)
(* sends is either applied by the site or lost (the JSF partial update has *)
(* not replaced the DOM when the crawler reads it again: the crawler only  *)
(* sleeps and polls document.readyState), the browser session may          *)
(* terminate, and file writes may fail.  MaxFaults bounds how many such    *)
(* faults one run meets.                                                   *)
(***************************************************************************)
EXTENDS Naturals, Sequences, FiniteSets, TLC

VARIABLES
    input,       \* the input document: "unreadable", or the list under "shops"
    pc,          \* the position of the run
    shop_list,   \* process_shop_list_json: the list after normalisation
    idx,         \* process_shop_list_json: number of loop iterations started
    results,     \* process_shop_list_json: the results document in memory
    disk,        \* the results document on durable storage, or NoDoc
    driver,      \* "none", "alive", "dead" (session terminated), "quit"
    quits,       \* number of executions of driver.quit()
    page,        \* the page the browser shows
    cur,         \* find_shop_by_id: its arguments and locals
    budget,      \* number of faults the environment may still cause
    asc,         \* history: the last call of navigate_back_using_breadcrumbs
    hist,        \* history: descents and failed ascents of the lookup in progress
    args,        \* main: the command-line arguments
    loc,         \* main: the locals of the crawl loops
    summary,     \* main: the summary document in memory
    summary_file,\* the file crawl_summary.json on durable storage
    persisted,   \* history: number of completed writes of the summary
    probe        \* a single call of an extraction or navigation function

\* the state of the full crawl and of the single calls
crawl_vars == <<args, loc, summary, summary_file, persisted, probe>>

vars == <<input, pc, shop_list, idx, results, disk, driver, quits, page, cur,
          budget, asc, hist, crawl_vars>>

-----------------------------------------------------------------------------
(* Bounds *)

\* longest "shops" list of an input document
MaxShops == 2

\* environment faults (lost click, terminated session, failed write or
\* session creation) in one run
MaxFaults == 2

-----------------------------------------------------------------------------
(* Values *)

\* Python's None (absent key of a dict)
None == "<None>"

\* Python truthiness of a string-or-None value
Truthy(x) == x # None /\ x # ""

\* str.lower() on the strings of the model
Lower(s) ==
    CASE s = "D1" -> "d1"
      [] s = "D2" -> "d2"
      [] s = "T1" -> "t1"
      [] s = "T2" -> "t2"
      [] s = "T3" -> "t3"
      [] s = "T4" -> "t4"
      [] s = "T5" -> "t5"
      [] s = "D3" -> "d3"
      [] s = "S8" -> "s8"
      [] s = "S9" -> "s9"
      [] s = "TX" -> "tx"
      [] s = "S1" -> "s1"
      [] s = "S2" -> "s2"
      [] s = "S3" -> "s3"
      [] s = "S4" -> "s4"
      [] s = "S5" -> "s5"
      [] s = "S6" -> "s6"
      [] s = "S7" -> "s7"
      [] s = "SX" -> "sx"
      [] s = "Online" -> "online"
      [] s = "Offline" -> "offline"
      [] s = "Unknown" -> "unknown"
      [] OTHER -> s

\* x in list (Python's "in" on a list)
InList(x, list) == \E i \in 1..Len(list) : list[i] = x

\* the first of the indices of the matching rows of a list (the loop over
\* the rows breaks at the first match), 0 if no row matches
FirstIndex(matching) ==
    IF matching = {} THEN 0
    ELSE CHOOSE i \in matching : \A j \in matching : i <= j

-----------------------------------------------------------------------------
(* The site: the hierarchy the crawler walks *)

\* the rows of the State-level table
Districts == <<"D1", "D2", "D3">>

\* the rows of a district's taluk table; D3 has a single taluk
TaluksOf(d) ==
    CASE d = "D1" -> <<"T1", "T2">>
      [] d = "D2" -> <<"T3", "T4">>
      [] d = "D3" -> <<"T5">>
      [] OTHER -> <<>>

\* the shop codes of a taluk's shop table; T3 has a single shop
ShopsOf(d, t) ==
    CASE d = "D1" /\ t = "T1" -> <<"S1", "S2">>
      [] d = "D1" /\ t = "T2" -> <<"S3", "S4">>
      [] d = "D2" /\ t = "T3" -> <<"S5">>
      [] d = "D2" /\ t = "T4" -> <<"S6", "S7">>
      [] d = "D3" /\ t = "T5" -> <<"S8", "S9">>
      [] OTHER -> <<>>

\* the texts a shop page is made of
Fragments ==
    {"Online", "Offline", "Online Status", "Online Status: Offline",
     "Shop Status: Active", "Open"}

\* word in text.lower(), for the words the status detection looks for
Has(text, word) ==
    CASE word = "online" ->
            text \in {"Online", "Online Status", "Online Status: Offline"}
      [] word = "offline" -> text \in {"Offline", "Online Status: Offline"}
      [] word = "status" ->
            text \in {"Online Status", "Online Status: Offline",
                      "Shop Status: Active"}
      [] word = "online status" ->
            text \in {"Online Status", "Online Status: Offline"}
      [] OTHER -> FALSE

\* what a shop page shows: the texts of the elements the selector of line
\* 1952 matches, in document order, and the other visible texts
Content(status_elements, other) ==
    [status_elements |-> status_elements, other |-> other]

\* word in driver.find_element(By.TAG_NAME, 'body').text.lower(): the body
\* text holds the text of every visible element
BodyHas(content, word) ==
    \/ \E i \in 1..Len(content.status_elements) :
            Has(content.status_elements[i], word)
    \/ \E t \in content.other : Has(t, word)

\* lines 1950-1977: the value stored under shop_details['status'], None
\* when the key is not set
detect_status(content) ==
    LET e == content.status_elements
        k == FirstIndex({i \in 1..Len(e) :
                Has(e[i], "online") \/ Has(e[i], "offline") \/ Has(e[i], "status")})
    IN  IF k # 0 THEN e[k]
        ELSE IF BodyHas(content, "offline") THEN "Offline"
        ELSE IF BodyHas(content, "online") THEN "Online"
        ELSE None

\* line 2175: shop_data.get("details", {}).get("status", "Unknown")
simplified_status(content) ==
    IF detect_status(content) = None THEN "Unknown" ELSE detect_status(content)

\* line 2393: shop_data.get('details', {}).get('shop_status', 'Unknown') on
\* the file written at lines 2031-2041; no step of the extraction stores a
\* key 'shop_status' (the pages of the model have no label of that name)
summary_status(content) == "Unknown"

\* the page of a shop: S1, S3 and S6 are online
ContentOf(s) ==
    IF s \in {"S1", "S3", "S6"}
    THEN Content(<<>>, {"Online"})
    ELSE Content(<<>>, {"Offline"})

\* the status a visit of the shop's page returns
StatusOf(s) == simplified_status(ContentOf(s))

\* every shop code of the hierarchy, with its place
AllShops ==
    { x \in {"D1", "D2", "D3"} \X {"T1", "T2", "T3", "T4", "T5"} \X
             {"S1", "S2", "S3", "S4", "S5", "S6", "S7", "S8", "S9"} :
        InList(x[2], TaluksOf(x[1])) /\ InList(x[3], ShopsOf(x[1], x[2])) }

-----------------------------------------------------------------------------
(* The browser: pages, tables and breadcrumbs *)

Blank == [level |-> "blank", d |-> "", t |-> "", s |-> ""]
MainPage == [level |-> "main", d |-> "", t |-> "", s |-> ""]
StatePage == [level |-> "state", d |-> "", t |-> "", s |-> ""]
DistrictPage(d) == [level |-> "district", d |-> d, t |-> "", s |-> ""]
TalukPage(d, t) == [level |-> "taluk", d |-> d, t |-> t, s |-> ""]
ShopPage(d, t, s) == [level |-> "shop", d |-> d, t |-> t, s |-> s]

\* a table row: the text of its first cell and what its link leads to
Row(kind, first) == [kind |-> kind, first |-> first]

\* the body rows of the data table of a page, in page order; every row of
\* a listing carries a link.  The State-level table is the one with the id
\* StateLevelDetailsForm:StateLevelDetailsTable.
DataRows(pg) ==
    CASE pg.level = "state" ->
            [i \in 1..Len(Districts) |-> Row("district", Districts[i])]
      [] pg.level = "district" ->
            [i \in 1..Len(TaluksOf(pg.d)) |-> Row("taluk", TaluksOf(pg.d)[i])]
      [] pg.level = "taluk" ->
            [i \in 1..Len(ShopsOf(pg.d, pg.t)) |-> Row("shop", ShopsOf(pg.d, pg.t)[i])]
      [] OTHER -> <<>>

\* the page a click on the link of a row leads to
RowTarget(pg, row) ==
    CASE row.kind = "district" -> DistrictPage(row.first)
      [] row.kind = "taluk" -> TalukPage(pg.d, row.first)
      [] row.kind = "shop" -> ShopPage(pg.d, pg.t, row.first)

\* the page after a click on a link that leads to target
Click(pg, target, o) == IF o = "applied" THEN target ELSE pg

\* the selector chain of the taluk, shop and shop-row tables ends in
\* 'table:not(.ui-menu-list)', which every data table matches; a candidate
\* needs more than one body row.  <<>> stands for "no table".
ResolveTable(pg) == IF Len(DataRows(pg)) > 1 THEN DataRows(pg) ELSE <<>>

\* number of links of the breadcrumb "Details Displayed for ...", as
\* check_navigation_state expects them: 1 at State, 2 at District, 3 at
\* Taluk and at Shop level; other pages have no breadcrumb.
BreadcrumbLinks(pg) ==
    CASE pg.level = "state" -> 1
      [] pg.level = "district" -> 2
      [] pg.level \in {"taluk", "shop"} -> 3
      [] OTHER -> 0

\* number of entries of the breadcrumb: the depth of the page plus one
BreadcrumbEntries(pg) ==
    CASE pg.level = "state" -> 1
      [] pg.level = "district" -> 2
      [] pg.level = "taluk" -> 3
      [] pg.level = "shop" -> 4
      [] OTHER -> 0

\* index of the breadcrumb link of a level, the district sent to the first
\* link
LinkIndexDistrictFirst(level) ==
    CASE level = "state" -> 0
      [] level = "district" -> 0
      [] level = "taluk" -> 2

\* index of the breadcrumb link of a level
LinkIndex(level) ==
    CASE level = "state" -> 0
      [] level = "district" -> 1
      [] level = "taluk" -> 2

\* the page the n-th breadcrumb link leads to
Ancestor(pg, n) ==
    CASE n = 0 -> StatePage
      [] n = 1 -> DistrictPage(pg.d)
      [] n = 2 -> TalukPage(pg.d, pg.t)

-----------------------------------------------------------------------------
(* The navigation operations.  Each takes the page shown, whether the      *)
(* session is alive and the outcome o of the click it sends, and yields    *)
(* its return value and the page shown afterwards.                         *)

\* navigate_to_main_page: driver.get inside try; o = "lost": the load fails
navigate_to_main_page(pg, alive, o) ==
    IF alive /\ o = "applied"
    THEN [ret |-> TRUE, page |-> MainPage]
    ELSE [ret |-> FALSE, page |-> pg]

\* attempts of navigate_to_pds_reports_and_get_districts
max_retries == 3

\* one attempt of navigate_to_pds_reports_and_get_districts that does not
\* go to the reports page when the page shown has a data table already, and
\* reads the districts from that table
reports_attempt_reuses_table(pg, alive, attempt, om, o) ==
    LET p1 == IF attempt > 0 THEN navigate_to_main_page(pg, alive, om).page ELSE pg
        p2 == IF alive /\ p1.level # "blank" /\ DataRows(p1) = <<>>
              THEN Click(p1, StatePage, o) ELSE p1
    IN  IF alive /\ DataRows(p2) # <<>>
        THEN [list |-> [i \in 1..Len(DataRows(p2)) |-> DataRows(p2)[i].first],
              page |-> p2]
        ELSE [list |-> <<>>, page |-> p2]

\* one attempt of navigate_to_pds_reports_and_get_districts in which no
\* attempt reloads the main page
reports_attempt_without_reload(pg, alive, attempt, om, o) ==
    LET p1 == pg
        p2 == IF alive /\ p1.level # "blank" THEN Click(p1, StatePage, o) ELSE p1
    IN  IF alive /\ p2.level = "state"
        THEN [list |-> [i \in 1..Len(DataRows(p2)) |-> DataRows(p2)[i].first],
              page |-> p2]
        ELSE [list |-> <<>>, page |-> p2]

\* one attempt of navigate_to_pds_reports_and_get_districts: from the
\* second attempt on it first reloads the main page (outcome om); then it
\* clicks the 'PDS Reports' link of the page shown (outcome o) and waits for
\* the State-level table.  list = <<>>: the attempt failed.
reports_attempt(pg, alive, attempt, om, o) ==
    LET p1 == IF attempt > 0 THEN navigate_to_main_page(pg, alive, om).page ELSE pg
        p2 == IF alive /\ p1.level # "blank" THEN Click(p1, StatePage, o) ELSE p1
    IN  IF alive /\ p2.level = "state"
        THEN [list |-> [i \in 1..Len(DataRows(p2)) |-> DataRows(p2)[i].first],
              page |-> p2]
        ELSE [list |-> <<>>, page |-> p2]

\* navigate_to_pds_reports_and_get_districts from its attempt-th pass of the
\* loop on (lines 1391-1479): outcomes[k] holds the outcome om of the reload
\* and o of the click of the k-th pass.  The districts are returned by the
\* first pass that finds the State-level table (line 1463); a pass that fails
\* returns None when it is the last (lines 1421-1422, 1467-1468, 1475-1476)
\* and goes on to the next pass otherwise; every exception is caught at
\* line 1471.  attempts counts the passes made.
RECURSIVE navigate_to_pds_reports_and_get_districts(_, _, _, _)
navigate_to_pds_reports_and_get_districts(pg, alive, attempt, outcomes) ==
    LET r == reports_attempt(pg, alive, attempt, outcomes[attempt + 1].om,
                             outcomes[attempt + 1].o)
    IN  IF r.list # <<>>
        THEN [ret |-> "list", list |-> r.list, page |-> r.page,
              attempts |-> attempt + 1]
        ELSE IF attempt = max_retries - 1
        THEN [ret |-> "None", list |-> <<>>, page |-> r.page,
              attempts |-> attempt + 1]
        ELSE navigate_to_pds_reports_and_get_districts(r.page, alive, attempt + 1,
                                                       outcomes)

\* navigate_to_district_and_get_taluks: ret is "None" or "list"; fail names
\* the branch that returned None: the session is gone ("session"), the
\* State-level table or the taluk table was not found ("table"), no row has
\* the name ("row")
navigate_to_district_and_get_taluks(pg, alive, district_name, o) ==
    IF ~alive
    THEN [ret |-> "None", fail |-> "session", list |-> <<>>, page |-> pg,
          clicked |-> FALSE]
    ELSE IF pg.level # "state"
    THEN [ret |-> "None", fail |-> "table", list |-> <<>>, page |-> pg,
          clicked |-> FALSE]
    ELSE
    LET rows == DataRows(pg)
        k == FirstIndex({i \in 1..Len(rows) : Lower(rows[i].first) = Lower(district_name)})
    IN  IF k = 0
        THEN [ret |-> "None", fail |-> "row", list |-> <<>>, page |-> pg,
              clicked |-> FALSE]
        ELSE
        LET p2 == Click(pg, RowTarget(pg, rows[k]), o)
            taluk_table == ResolveTable(p2)
        IN  IF taluk_table = <<>>
            THEN [ret |-> "None", fail |-> "table", list |-> <<>>, page |-> p2,
                  clicked |-> TRUE]
            ELSE [ret |-> "list", fail |-> "none",
                  list |-> [i \in 1..Len(taluk_table) |-> taluk_table[i].first],
                  page |-> p2, clicked |-> TRUE]

\* navigate_to_taluk_and_get_shops: the list holds the rows of the table
\* read after the click; ret and fail as above
navigate_to_taluk_and_get_shops(pg, alive, taluk_name, o) ==
    IF ~alive
    THEN [ret |-> "None", fail |-> "session", list |-> <<>>, page |-> pg,
          clicked |-> FALSE]
    ELSE
    LET rows == ResolveTable(pg)
        k == FirstIndex({i \in 1..Len(rows) : Lower(rows[i].first) = Lower(taluk_name)})
    IN  IF rows = <<>>
        THEN [ret |-> "None", fail |-> "table", list |-> <<>>, page |-> pg,
              clicked |-> FALSE]
        ELSE IF k = 0
        THEN [ret |-> "None", fail |-> "row", list |-> <<>>, page |-> pg,
              clicked |-> FALSE]
        ELSE
        LET p2 == Click(pg, RowTarget(pg, rows[k]), o)
            shop_table == ResolveTable(p2)
        IN  IF shop_table = <<>>
            THEN [ret |-> "None", fail |-> "table", list |-> <<>>, page |-> p2,
                  clicked |-> TRUE]
            ELSE [ret |-> "list", fail |-> "none", list |-> shop_table,
                  page |-> p2, clicked |-> TRUE]

\* shop.get('SHOP CODE', '') on a row of the list of shops: only the shop
\* table has that header
ShopCode(row) == IF row.kind = "shop" THEN row.first ELSE ""

\* navigate_back_using_breadcrumbs with the test of the number of links off
\* by one
navigate_back_links_off_by_one(pg, alive, level, o) ==
    IF alive /\ BreadcrumbLinks(pg) >= LinkIndex(level)
    THEN [ret |-> TRUE, page |-> Click(pg, Ancestor(pg, LinkIndex(level)), o)]
    ELSE [ret |-> FALSE, page |-> pg]

\* navigate_back_using_breadcrumbs
navigate_back_using_breadcrumbs(pg, alive, level, o) ==
    IF alive /\ BreadcrumbLinks(pg) > LinkIndex(level)
    THEN [ret |-> TRUE, page |-> Click(pg, Ancestor(pg, LinkIndex(level)), o)]
    ELSE [ret |-> FALSE, page |-> pg]

\* check_navigation_state: the breadcrumb of State, District, Taluk and Shop
\* pages decides (lines 1309-1328: number of links and the names in its
\* text); a page without breadcrumb has none of the tables of lines
\* 1333-1362; on a terminated session the exception is caught (line 1365)
check_navigation_state(pg, alive, expected_level, district, taluk) ==
    /\ alive
    /\ CASE expected_level = "state" -> pg.level = "state"
         [] expected_level = "district" ->
                BreadcrumbLinks(pg) = 2 /\ Truthy(district) /\ pg.d = district
         [] expected_level = "taluk" ->
                BreadcrumbLinks(pg) = 3 /\ Truthy(district) /\ Truthy(taluk)
                /\ pg.d = district /\ pg.t = taluk
         [] expected_level = "shop" ->
                BreadcrumbLinks(pg) = 3 /\ Truthy(district) /\ Truthy(taluk)
                /\ pg.d = district /\ pg.t = taluk

\* cell text contains the shop id (Python's "in" on the lower-cased
\* strings); the codes of the hierarchy are no substrings of one another
Contains(hay, needle) == needle = "" \/ Lower(hay) = Lower(needle)

\* navigate_to_shop_and_get_details: ret is "details" (a non-empty dict with
\* the status read from the page shown after the click), "false", or "raise"
\* (the except handlers call driver.save_screenshot, which raises on a
\* terminated session).  io = "fail": writing the per-shop file fails.
\* fail names the branch that did not return details.
navigate_to_shop_and_get_details(pg, alive, shop_id, o, io) ==
    IF ~alive
    THEN [ret |-> "raise", fail |-> "session", status |-> None, page |-> pg,
          clicked |-> FALSE]
    ELSE
    LET rows == ResolveTable(pg)
        k == FirstIndex({i \in 1..Len(rows) : Contains(rows[i].first, shop_id)})
    IN  IF rows = <<>>
        THEN [ret |-> "false", fail |-> "table", status |-> None, page |-> pg,
              clicked |-> FALSE]
        ELSE IF k = 0
        THEN [ret |-> "false", fail |-> "row", status |-> None, page |-> pg,
              clicked |-> FALSE]
        ELSE
        LET p2 == Click(pg, RowTarget(pg, rows[k]), o)
        IN  IF io = "fail"
            THEN [ret |-> "false", fail |-> "io", status |-> None, page |-> p2,
                  clicked |-> TRUE]
            ELSE [ret |-> "details", fail |-> "none",
                  status |-> IF p2.level = "shop" THEN StatusOf(p2.s) ELSE "Unknown",
                  page |-> p2, clicked |-> TRUE]

-----------------------------------------------------------------------------
(* Table extraction.  A row is given by the header texts of its table and  *)
(* the number of its cells; the extracted mapping takes each key to the    *)
(* index of the cell whose text it holds.                                  *)

\* f"Column{j}" for the 0-based index j
ColumnKey(j) ==
    CASE j = 0 -> "Column0"
      [] j = 1 -> "Column1"
      [] j = 2 -> "Column2"
      [] j = 3 -> "Column3"
      [] j = 4 -> "Column4"
      [] OTHER -> "ColumnN"

\* the mapping a loop of assignments row_data[key[i]] = cell i leaves, for
\* the 1-based indices in used: a later cell replaces an earlier one
RowMapping(used, key) ==
    [k \in {key[i] : i \in used} |->
        CHOOSE i \in used : key[i] = k /\ \A j \in used : key[j] = k => j <= i]

\* lines 1712-1722 (list of shops) and 1994-2002 (tables of a shop page):
\* a cell beyond the headers is dropped, an empty header is replaced
extract_row(headers, cells) ==
    LET used == {i \in 1..cells : i <= Len(headers)}
        key == [i \in used |->
                    IF headers[i] # "" THEN headers[i] ELSE ColumnKey(i - 1)]
    IN  RowMapping(used, key)

\* lines 844-883 of extract_shop_details: headers that are all empty are
\* replaced as a whole, a cell beyond the headers gets a Column key
extract_shop_details_row(headers, cells) ==
    LET hs == IF \A i \in 1..Len(headers) : headers[i] = ""
              THEN [i \in 1..Len(headers) |-> ColumnKey(i - 1)]
              ELSE headers
        key == [i \in 1..cells |->
                    IF i <= Len(hs) THEN hs[i] ELSE ColumnKey(i - 1)]
    IN  RowMapping(1..cells, key)

-----------------------------------------------------------------------------
(* The details of a shop page: a dict, built by the status detection, the  *)
(* sweep over the tables and the sweep over the labels                     *)

\* details[key] = value on a dict
Assign(details, key, value) ==
    [k \in (DOMAIN details) \cup {key} |-> IF k = key THEN value ELSE details[k]]

\* lines 1948-1977: the dict after the status detection; the body text is
\* read only when no status element has matched
status_pass(content) ==
    LET e == content.status_elements
        matched == \E i \in 1..Len(e) :
                        Has(e[i], "online") \/ Has(e[i], "offline") \/ Has(e[i], "status")
        d0 == <<>>
        d1 == IF ~matched /\ BodyHas(content, "online status")
              THEN Assign(d0, "status_context", "context")
              ELSE d0
    IN  IF detect_status(content) # None
        THEN Assign(d1, "status", detect_status(content))
        ELSE d1

\* f"Table{i+1}" for the 1-based position of a table
TableKey(i) ==
    CASE i = 1 -> "Table1"
      [] i = 2 -> "Table2"
      [] i = 3 -> "Table3"
      [] i = 4 -> "Table4"
      [] i = 5 -> "Table5"
      [] i = 6 -> "Table6"
      [] OTHER -> "TableN"

\* lines 1979-2007: the tables of the page in document order; tables[i] says
\* whether table i has a row with data
RECURSIVE table_sweep(_, _, _)
table_sweep(details, tables, i) ==
    IF i > Len(tables) THEN details
    ELSE table_sweep(IF tables[i] THEN Assign(details, TableKey(i), "table data")
                     ELSE details,
                     tables, i + 1)

\* line 2013: label.text.strip().replace(':', '')
LabelKey(text) ==
    CASE text = "status:" -> "status"
      [] text = "Status:" -> "Status"
      [] text = "Table1" -> "Table1"
      [] text = ":" -> ""

\* lines 2009-2024: the labels of the page in document order, each with the
\* text of the element next to it
RECURSIVE label_sweep(_, _, _)
label_sweep(details, labels, i) ==
    IF i > Len(labels) THEN details
    ELSE LET key == LabelKey(labels[i].text)
             value == labels[i].value
         IN  label_sweep(IF key # "" /\ value # ""
                         THEN Assign(details, key, value)
                         ELSE details,
                         labels, i + 1)

-----------------------------------------------------------------------------
(* The transactions collection of extract_shop_details.  A table is its    *)
(* header texts and, per data row, the number of its cells; a collected    *)
(* row is named by the position of its table and its position in the table *)

\* header.lower() on the header texts of the model
HeaderLower(h) ==
    CASE h = "Bill Number" -> "bill number"
      [] h = "BILL NO" -> "bill no"
      [] h = "Amount" -> "amount"
      [] OTHER -> h

\* line 862: the headers that make a table a transaction table
BillHeaders == {"bill number", "bill no", "bill no.", "transaction id"}

\* lines 859-866: the 1-based position of the first bill header, 0 if the
\* table has none
bill_number_index(headers) ==
    FirstIndex({i \in 1..Len(headers) : HeaderLower(headers[i]) \in BillHeaders})

\* lines 873-887: the rows of table t that are appended to the transactions;
\* after the loop over the cells j is the index of the last cell
transaction_rows(t, table) ==
    LET b == bill_number_index(table.headers)
        kept == SelectSeq([r \in 1..Len(table.rows) |->
                              [table |-> t, row |-> r, cells |-> table.rows[r]]],
                          LAMBDA x : x.cells > 0 /\ x.cells >= b)
    IN  IF b = 0 THEN <<>> ELSE kept

\* lines 838-891: tables['transactions'] after the tables from position t
\* on, transactions being the rows collected before; line 870 sets the key
\* to a new list at every transaction table
RECURSIVE extract_transactions(_, _, _)
extract_transactions(tables, t, transactions) ==
    IF t > Len(tables) THEN transactions
    ELSE extract_transactions(
            tables, t + 1,
            IF bill_number_index(tables[t].headers) # 0
            THEN transaction_rows(t, tables[t])
            ELSE transactions)

-----------------------------------------------------------------------------
(* The last transaction of a shop page, navigate_to_shop_and_get_details   *)

\* lines 1989-2002: the rows of a table that hold data, each the mapping of
\* its headers to the 1-based index of the cell
table_data(table) ==
    SelectSeq([r \in 1..Len(table.rows) |-> extract_row(table.headers, table.rows[r])],
              LAMBDA row : DOMAIN row # {})

\* lines 2045-2056: last_bill, read from the first row of the table stored
\* under the key "Table6", the sixth table element of the page; bill_number
\* is the cell under the header "Bill Number", 0 for the default of get
last_bill(tables) ==
    IF Len(tables) >= 6 /\ table_data(tables[6]) # <<>>
    THEN LET bill_row == table_data(tables[6])[1]
         IN  [populated |-> TRUE, table |-> 6,
              bill_number |-> IF "Bill Number" \in DOMAIN bill_row
                              THEN bill_row["Bill Number"] ELSE 0]
    ELSE [populated |-> FALSE, table |-> 0, bill_number |-> 0]

\* lines 2058-2164: the steps of the drill-down into the last bill, in the
\* order of the code
DrillSteps ==
    <<"scroll", "screenshot", "locate", "scroll_into_view", "capture", "click",
      "wait", "dialog_screenshot", "read", "close">>

\* the position of a step; the position after the last step for "none"
StepIndex(step) ==
    IF \E i \in 1..Len(DrillSteps) : DrillSteps[i] = step
    THEN CHOOSE i \in 1..Len(DrillSteps) : DrillSteps[i] = step
    ELSE Len(DrillSteps) + 1

\* lines 2045-2188 on a live session, for a page whose "Table6" has a row:
\* view says that the page has a View link, close_button that the dialog
\* has a close control, fail_at names the step that raises.  The steps
\* before the try of line 2080 are guarded only by the handler of line 2167
\* for IndexError, AttributeError and KeyError, so an exception of the
\* driver or of the file system reaches the handler of line 2190, which
\* returns False; the steps inside are guarded by the handler of line 2165.
\* The dialog is open once the wait of line 2100 has seen it; the click on
\* the close control (close_button) or else the Escape key follows the
\* reading of the dialog inside the same try.
drill_down(view, close_button, fail_at) ==
    LET f == StepIndex(fail_at)
        reached(step) == StepIndex(step) < f
        raises(step) == StepIndex(step) = f
    IN  IF raises("scroll") \/ raises("screenshot") \/ raises("locate")
        THEN [ret |-> "false", populated |-> FALSE, details |-> FALSE,
              opened |-> FALSE, close_action |-> FALSE]
        ELSE [ret |-> "details",
              populated |-> TRUE,
              details |-> view /\ reached("read"),
              opened |-> view /\ reached("wait"),
              close_action |-> view /\ reached("read")]

-----------------------------------------------------------------------------
(* Table resolution over a selector chain.  A page is given by its         *)
(* elements in page order; each element has the set of selectors it        *)
(* matches and the number of its 'tbody tr' rows.  The result is the index *)
(* of the element chosen, 0 for "no table".                                *)

\* lines 1600-1606 (the quotes around the attribute values left out)
taluk_table_selectors ==
    << "[id$=TalukLevelDetailsTable]", "[id*=Taluk][id*=Table]",
       ".ui-datatable", "table.dataTable", "table:not(.ui-menu-list)" >>

\* lines 1863-1869
shop_table_selectors ==
    << "[id$=ShopLevelDetailsTable]", "[id*=Shop][id*=Table]",
       ".ui-datatable", "table.dataTable", "table:not(.ui-menu-list)" >>

\* driver.find_elements(By.CSS_SELECTOR, selector): the elements that match,
\* as indices in page order
find_elements(elements, selector) ==
    { i \in 1..Len(elements) : selector \in elements[i].matches }

\* the filter of the small tables: len(rows) > 1
valid_tables(elements, selector) ==
    { i \in find_elements(elements, selector) : elements[i].rows > 1 }

\* the loop over the chain, leaving it at the first selector with a match
\* whether or not a match is large enough
RECURSIVE resolve_table_first_selector(_, _, _)
resolve_table_first_selector(selectors, elements, s) ==
    IF s > Len(selectors)
    THEN 0
    ELSE IF find_elements(elements, selectors[s]) # {}
    THEN FirstIndex(valid_tables(elements, selectors[s]))
    ELSE resolve_table_first_selector(selectors, elements, s + 1)

\* lines 1608-1625 and 1871-1888: the loop over the chain from its s-th
\* selector on; valid_tables[0] and break at the first selector with a valid
\* table
RECURSIVE resolve_table(_, _, _)
resolve_table(selectors, elements, s) ==
    IF s > Len(selectors)
    THEN 0
    ELSE IF valid_tables(elements, selectors[s]) # {}
    THEN FirstIndex(valid_tables(elements, selectors[s]))
    ELSE resolve_table(selectors, elements, s + 1)

-----------------------------------------------------------------------------
(* Synchronization after a navigation action.  A click starts a page       *)
(* update that is either a load of a new document ("reload") or a partial  *)
(* update of the document shown ("ajax") and takes some seconds.  The      *)
(* steps between the click and the next read of the page are those of the  *)
(* source; left is the time the update still needs.                        *)

Sleep(n) == [step |-> "sleep", n |-> n]
Ready == [step |-> "ready", n |-> 0]
Element == [step |-> "element", n |-> 0]
Read == [step |-> "read", n |-> 0]

\* the steps after each navigation action up to the next read of the page
sync_steps(op) ==
    CASE op = "language_radio" -> << Sleep(3), Ready, Read >>
      [] op = "language_link" -> << Sleep(2), Read >>
      [] op = "reports" -> << Sleep(2), Ready, Element, Read >>
      [] op = "district" -> << Sleep(2), Ready, Read >>
      [] op = "taluk" -> << Sleep(2), Ready, Read >>
      [] op = "shop" -> << Sleep(2), Ready, Read >>
      [] op = "ascent" -> << Sleep(3), Ready, Read >>
      [] op = "view" -> << Element, Read >>
      [] op = "close" -> << Sleep(1), Ready, Sleep(1), Read >>

\* the time an update still needs after a step: time.sleep(n) lets n seconds
\* pass; the wait for document.readyState == 'complete' lasts until a new
\* document is loaded and returns at once on a partial update, during which
\* the ready state of the document stays 'complete'; the wait for an
\* element that the update brings lasts until the update is done
after_step(step, update, left) ==
    CASE step.step = "sleep" -> IF left > step.n THEN left - step.n ELSE 0
      [] step.step = "ready" -> IF update = "reload" THEN 0 ELSE left
      [] step.step = "element" -> 0
      [] OTHER -> left

\* the steps from the i-th on, up to the read: waited says that a step that
\* waits for a condition of the page was made, left is the time the update
\* still needs when the page is read
RECURSIVE run_sync(_, _, _, _, _)
run_sync(steps, i, update, left, waited) ==
    IF i > Len(steps) \/ steps[i].step = "read"
    THEN [waited |-> waited, left |-> left]
    ELSE run_sync(steps, i + 1, update, after_step(steps[i], update, left),
                  waited \/ steps[i].step \in {"ready", "element"})

-----------------------------------------------------------------------------
(* wait_for_ajax.  The page either defines jQuery or not; busy is the      *)
(* number of polls of the wait at which jQuery.active is not yet zero;     *)
(* ready is the ready state of the document while the function runs.       *)

\* polls of wait.until before it raises TimeoutException
MaxPolls == 3

\* lines 253-259.  The script raises when jQuery is not defined or the
\* session is gone; wait.until lets that exception through and raises
\* TimeoutException itself when the condition is false at every poll; the
\* bare except catches both and sleeps.  fallback: the delay of line 259 was
\* used; active: jQuery.active is not zero when the function returns
wait_for_ajax(jquery, busy, ready, alive) ==
    IF alive /\ jquery /\ busy < MaxPolls
    THEN [raised |-> FALSE, fallback |-> FALSE, active |-> FALSE, ready |-> ready]
    ELSE [raised |-> FALSE, fallback |-> TRUE,
          active |-> jquery /\ busy >= MaxPolls, ready |-> ready]

-----------------------------------------------------------------------------
(* The input document of the targeted lookup *)

\* an entry of "shops": a plain identifier or an object {id, district?, taluk?}
Plain(id) == [kind |-> "str", id |-> id, idkind |-> "str",
              district |-> None, taluk |-> None]
Object(id, d, t) == [kind |-> "dict", id |-> id, idkind |-> "str",
                     district |-> d, taluk |-> t]

\* the entries the input lists are built from
RawEntries ==
    { Plain("S1"), Plain("SX"),
      Object("S6", "D2", "T4"),   \* both hints, right
      Object("S6", "d2", None),   \* district hint in another case
      Object("S5", "D2", None),   \* a shop of the one-row table of T3
      Object("S3", "D1", "TX"),   \* taluk hint that is no taluk of D1
      Object("S6", "D1", None) }  \* district hint that is not S6's district

\* the lists of at most MaxShops entries
InputLists == UNION { [1..n -> RawEntries] : n \in 0..MaxShops }

\* lines 137-142: a list whose first element is no dict is converted
\* element by element to {"id": element}; any other list is left as it is
NormalizeShopList(list) ==
    IF Len(list) > 0 /\ list[1].kind = "dict"
    THEN list
    ELSE [i \in 1..Len(list) |->
            [kind |-> "dict", id |-> list[i].id, idkind |-> list[i].kind,
             district |-> None, taluk |-> None]]

\* the results document of lines 152-160
InitialResults(n) ==
    [total_shops_checked |-> n, shops_found |-> 0, shops_not_found |-> 0,
     online_shops |-> 0, offline_shops |-> 0, results |-> <<>>]

\* no document on durable storage
NoDoc == [total_shops_checked |-> 0, shops_found |-> 0, shops_not_found |-> 0,
          online_shops |-> 0, offline_shops |-> 0, results |-> <<>>,
          written |-> FALSE]

\* json.dump of the results document
Written(doc) == doc @@ [written |-> TRUE]

\* the locals of find_shop_by_id outside a call
NoCall ==
    [shop_id |-> None, idkind |-> "str", known_district |-> None,
     known_taluk |-> None, attempt |-> 0, districts |-> <<>>, di |-> 0,
     taluks |-> <<>>, ti |-> 0, district |-> None, taluk |-> None,
     matched |-> FALSE, found |-> FALSE, status |-> None]

NoAscent == [level |-> "none", ret |-> FALSE, after |-> Blank]

NoHist == [dvisited |-> {}, tvisited |-> {}, pending |-> FALSE,
           fwd_after_fail |-> FALSE, after_match |-> FALSE]

-----------------------------------------------------------------------------
(* The documents and locals of the full crawl *)

\* the command-line arguments of main with their defaults (lines 2215-2223)
NoArgs ==
    [district |-> None, taluk |-> None, shop |-> None,
     limit_districts |-> 0, limit_taluks |-> 0, limit_shops |-> 0]

\* the argument vectors of the runs: no filter, a district filter that is
\* and one that is not in the list, a taluk filter, a shop filter, and a
\* limit of one at every level
ArgSets ==
    { NoArgs,
      [NoArgs EXCEPT !.district = "D1"],
      [NoArgs EXCEPT !.district = "DX"],
      [NoArgs EXCEPT !.taluk = "T1"],
      [NoArgs EXCEPT !.shop = "S1"],
      [NoArgs EXCEPT !.limit_districts = 1, !.limit_taluks = 1,
                     !.limit_shops = 1] }

\* list[:limit] when limit > 0 (lines 2286-2287, 2323-2324, 2375-2376)
Limit(list, limit) ==
    IF limit > 0 /\ limit < Len(list) THEN SubSeq(list, 1, limit) ELSE list

\* the locals of the loops of main before the crawl
NoLoc ==
    [attempt |-> 0, districts |-> <<>>, di |-> 0, district |-> None,
     taluks |-> <<>>, ti |-> 0, taluk |-> None, shops |-> <<>>, si |-> 0,
     success |-> FALSE]

\* the summary of lines 2268-2275
EmptySummary ==
    [total_districts |-> 0, total_taluks |-> 0, total_shops |-> 0,
     online_shops |-> 0, offline_shops |-> 0, districts |-> <<>>]

\* the district record of lines 2305-2311
DistrictRecord ==
    [total_taluks |-> 0, total_shops |-> 0, online_shops |-> 0,
     offline_shops |-> 0, taluks |-> <<>>]

\* the taluk record of lines 2351-2357
TalukRecord(n) ==
    [total_shops |-> n, processed_shops |-> 0, online_shops |-> 0,
     offline_shops |-> 0, shops |-> <<>>]

\* the file crawl_summary.json: absent, open and not yet fully written
\* ("partial": open(..., 'w') has truncated it), or holding a whole document
NoFile == [state |-> "absent", doc |-> EmptySummary]

\* lines 2304-2312: the district record is (re)created
AddDistrict(sm, d) ==
    [sm EXCEPT !.districts = [x \in (DOMAIN @) \cup {d} |->
                                IF x = d THEN DistrictRecord ELSE @[x]],
               !.total_districts = @ + 1]

\* lines 2350-2359: the taluk record is (re)created with the number of shops
\* of the list
AddTaluk(sm, d, t, n) ==
    [sm EXCEPT !.districts[d].taluks = [x \in (DOMAIN @) \cup {t} |->
                                          IF x = t THEN TalukRecord(n) ELSE @[x]],
               !.districts[d].total_taluks = @ + 1,
               !.total_taluks = @ + 1]

\* lines 2395-2415: the shop entry and the counters
AddShop(sm, d, t, id, status) ==
    LET on == IF Lower(status) = "online" THEN 1 ELSE 0
        off == IF Lower(status) = "offline" THEN 1 ELSE 0
    IN  [sm EXCEPT
            !.districts[d].taluks[t].shops =
                [x \in (DOMAIN @) \cup {id} |->
                    IF x = id THEN [status |-> status] ELSE @[x]],
            !.districts[d].taluks[t].total_shops = @ + 1,
            !.districts[d].taluks[t].online_shops = @ + on,
            !.districts[d].taluks[t].offline_shops = @ + off,
            !.districts[d].total_shops = @ + 1,
            !.districts[d].online_shops = @ + on,
            !.districts[d].offline_shops = @ + off,
            !.total_shops = @ + 1,
            !.online_shops = @ + on,
            !.offline_shops = @ + off]

\* no single call
NoProbe == [kind |-> "none"]

-----------------------------------------------------------------------------
(* The environment *)

\* what the site does with a click
Outcomes == {"applied", "lost"}

\* a lost click is a fault, and only a click that is sent can be lost
Env(o, sent) == o = "applied" \/ (sent /\ budget > 0)

Cost(o) == IF o = "applied" THEN 0 ELSE 1

Alive == driver = "alive"

\* d[k] = v on a Python dict
Put(f, k, v) == [x \in (DOMAIN f) \cup {k} |-> IF x = k THEN v ELSE f[x]]

\* the positions at which the run has ended
Ended == {"returned", "done", "raised", "m_done", "m_raised", "crashed"}

-----------------------------------------------------------------------------
(* Initial state: process_shop_list_json is entered with an input file *)

Start(b) ==
    /\ input \in [ok : {TRUE}, shops : InputLists] \cup {[ok |-> FALSE, shops |-> <<>>]}
    /\ pc = "read"
    /\ shop_list = <<>>
    /\ idx = 0
    /\ results = InitialResults(0)
    /\ disk = NoDoc
    /\ driver = "none"
    /\ quits = 0
    /\ page = Blank
    /\ cur = NoCall
    /\ budget = b
    /\ asc = NoAscent
    /\ hist = NoHist
    /\ args = NoArgs
    /\ loc = NoLoc
    /\ summary = EmptySummary
    /\ summary_file = NoFile
    /\ persisted = 0
    /\ probe = NoProbe

\* a run in an environment that may fail MaxFaults times
Init == Start(MaxFaults)

\* a run in an environment that never fails
InitReliable == Start(0)

-----------------------------------------------------------------------------
(* process_shop_list_json *)

\* lines 130-160: read and normalise the input, initialise the results
ReadInput ==
    /\ pc = "read"
    /\ IF input.ok
       THEN /\ shop_list' = NormalizeShopList(input.shops)
            /\ results' = InitialResults(Len(input.shops))
            /\ pc' = "create"
       ELSE /\ pc' = "returned"
            /\ UNCHANGED <<shop_list, results>>
    /\ UNCHANGED <<crawl_vars, input, idx, disk, driver, quits, page, cur, budget, asc, hist>>

\* lines 163-175: webdriver.Chrome(...), outside any try
CreateDriver ==
    /\ pc = "create"
    /\ \/ /\ driver' = "alive"
          /\ pc' = "l_main"
          /\ UNCHANGED budget
       \/ /\ budget > 0
          /\ budget' = budget - 1
          /\ pc' = "raised"
          /\ UNCHANGED driver
    /\ UNCHANGED <<crawl_vars, input, shop_list, idx, results, disk, quits, page, cur, asc, hist>>

\* the browser session terminates by itself
SessionTerminates ==
    /\ Alive
    /\ pc \notin Ended
    /\ budget > 0
    /\ driver' = "dead"
    /\ budget' = budget - 1
    /\ UNCHANGED <<crawl_vars, input, pc, shop_list, idx, results, disk, quits, page, cur, asc, hist>>

\* line 179
LookupMainPage ==
    /\ pc = "l_main"
    /\ \E o \in Outcomes :
        /\ Env(o, Alive)
        /\ page' = navigate_to_main_page(page, Alive, o).page
        /\ budget' = budget - Cost(o)
    /\ pc' = "l_next"
    /\ UNCHANGED <<crawl_vars, input, shop_list, idx, results, disk, driver, quits, cur, asc, hist>>

\* lines 182-194: the head of the loop over shop_list, up to the call of
\* find_shop_by_id; shop_item.get raises on an element that is no dict
NextShopItem ==
    /\ pc = "l_next"
    /\ IF idx = Len(shop_list)
       THEN /\ pc' = "l_finally"
            /\ UNCHANGED <<idx, cur, hist>>
       ELSE /\ idx' = idx + 1
            /\ IF shop_list[idx + 1].kind # "dict"
               THEN /\ pc' = "l_finally"
                    /\ UNCHANGED <<cur, hist>>
               ELSE /\ cur' = [NoCall EXCEPT
                                !.shop_id = shop_list[idx + 1].id,
                                !.idkind = shop_list[idx + 1].idkind,
                                !.known_district = shop_list[idx + 1].district,
                                !.known_taluk = shop_list[idx + 1].taluk]
                    /\ hist' = [NoHist EXCEPT !.pending = hist.pending,
                                         !.fwd_after_fail = hist.fwd_after_fail]
                    /\ pc' = "f_main"
    /\ UNCHANGED <<crawl_vars, input, shop_list, results, disk, driver, quits, page, budget, asc>>

\* lines 196-221: count the outcome and store the entry; a shop id that is
\* itself a dict is unhashable, the store raises after the counter was bumped
RecordResult ==
    /\ pc = "l_record"
    /\ LET counted ==
            IF cur.found
            THEN [results EXCEPT !.shops_found = @ + 1]
            ELSE [results EXCEPT !.shops_not_found = @ + 1]
           entry ==
            IF cur.found
            THEN [found |-> TRUE, district |-> cur.district, taluk |-> cur.taluk,
                  status |-> cur.status]
            ELSE [found |-> FALSE, district |-> None, taluk |-> None,
                  status |-> None]
           stored == [counted EXCEPT !.results = Put(@, cur.shop_id, entry)]
       IN  IF cur.idkind # "str"
           THEN /\ results' = counted
                /\ pc' = "l_finally"
           ELSE /\ results' =
                    IF cur.found /\ Lower(cur.status) = "online"
                    THEN [stored EXCEPT !.online_shops = @ + 1]
                    ELSE IF cur.found /\ Lower(cur.status) = "offline"
                         THEN [stored EXCEPT !.offline_shops = @ + 1]
                         ELSE stored
                /\ pc' = "l_next"
    /\ UNCHANGED <<crawl_vars, input, shop_list, idx, disk, driver, quits, page, cur, budget, asc, hist>>

\* lines 224-240: the finally clause: write the results document, then
\* driver.quit(); a failing open/json.dump raises out of the function
Finally ==
    /\ pc = "l_finally"
    /\ \/ /\ disk' = Written(results)
          /\ driver' = "quit"
          /\ quits' = quits + 1
          /\ pc' = "done"
          /\ UNCHANGED budget
       \/ /\ budget > 0
          /\ budget' = budget - 1
          /\ pc' = "raised"
          /\ UNCHANGED <<disk, driver, quits>>
    /\ UNCHANGED <<crawl_vars, input, shop_list, idx, results, page, cur, asc, hist>>

-----------------------------------------------------------------------------
(* find_shop_by_id *)

\* a forward transition is attempted: it is noted when an ascent has failed
\* and no re-navigation from the root has happened since
Forward(h) == [h EXCEPT !.fwd_after_fail = @ \/ h.pending,
                        !.after_match = @ \/ cur.matched]

\* lines 47-48
FilterDistricts(districts, known_district) ==
    IF Truthy(known_district) /\ InList(known_district, districts)
    THEN <<known_district>>
    ELSE districts

\* lines 60-61
FilterTaluks(taluks, known_taluk) ==
    IF Truthy(known_taluk) /\ InList(known_taluk, taluks)
    THEN <<known_taluk>>
    ELSE taluks

\* lines 73-77 with shop_found set for any row of a non-empty list
ShopInListAnyRow(shops, shop_id, idkind) ==
    idkind = "str" /\ Len(shops) > 0

\* lines 73-77: some row of the shop list has the shop id as its SHOP CODE
ShopInList(shops, shop_id, idkind) ==
    idkind = "str" /\ \E i \in 1..Len(shops) : ShopCode(shops[i]) = shop_id

\* line 40: the lookup starts at the main page
FindMainPage ==
    /\ pc = "f_main"
    /\ \E o \in Outcomes :
        /\ Env(o, Alive)
        /\ page' = navigate_to_main_page(page, Alive, o).page
        /\ budget' = budget - Cost(o)
    /\ hist' = [hist EXCEPT !.pending = FALSE]
    /\ pc' = "f_reports"
    /\ UNCHANGED <<crawl_vars, input, shop_list, idx, results, disk, driver, quits, cur, asc>>

\* lines 41-48 with one attempt of the loop of
\* navigate_to_pds_reports_and_get_districts: the first attempt that finds
\* the State-level table returns its districts, the failure of the last
\* attempt returns None and the lookup returns not found
FindReports ==
    /\ pc = "f_reports"
    /\ \E om \in Outcomes, o \in Outcomes :
        LET r == reports_attempt(page, Alive, cur.attempt, om, o) IN
        /\ Env(om, Alive /\ cur.attempt > 0)
        /\ Env(o, Alive /\ (cur.attempt > 0 \/ page.level # "blank"))
        /\ Cost(om) + Cost(o) <= budget
        /\ budget' = budget - (Cost(om) + Cost(o))
        /\ page' = r.page
        /\ IF r.list # <<>>
           THEN /\ cur' = [cur EXCEPT
                            !.districts = FilterDistricts(r.list, cur.known_district),
                            !.di = 1]
                /\ pc' = "f_district"
           ELSE IF cur.attempt = max_retries - 1
                THEN /\ cur' = [cur EXCEPT !.found = FALSE]
                     /\ pc' = "l_record"
                ELSE /\ cur' = [cur EXCEPT !.attempt = @ + 1]
                     /\ pc' = "f_reports"
    /\ UNCHANGED <<crawl_vars, input, shop_list, idx, results, disk, driver, quits, asc, hist>>

\* lines 51-61 (and 119-120 when the districts are exhausted)
FindDistrict ==
    /\ pc = "f_district"
    /\ IF cur.di > Len(cur.districts)
       THEN /\ cur' = [cur EXCEPT !.found = FALSE]
            /\ pc' = "l_record"
            /\ UNCHANGED <<page, budget, hist>>
       ELSE \E o \in Outcomes :
            LET district == cur.districts[cur.di]
                r == navigate_to_district_and_get_taluks(page, Alive, district, o)
            IN  /\ Env(o, r.clicked)
                /\ budget' = budget - Cost(o)
                /\ page' = r.page
                /\ hist' = [Forward(hist) EXCEPT !.dvisited = @ \cup {district}]
                /\ IF r.list = <<>>
                   THEN /\ cur' = [cur EXCEPT !.district = district]
                        /\ pc' = "f_skip_district"
                   ELSE /\ cur' = [cur EXCEPT
                                    !.district = district,
                                    !.taluks = FilterTaluks(r.list, cur.known_taluk),
                                    !.ti = 1]
                        /\ pc' = "f_taluk"
    /\ UNCHANGED <<crawl_vars, input, shop_list, idx, results, disk, driver, quits, asc>>

\* lines 64-78 (and 116-117 when the taluks are exhausted)
FindTaluk ==
    /\ pc = "f_taluk"
    /\ IF cur.ti > Len(cur.taluks)
       THEN /\ pc' = "f_end_district"
            /\ UNCHANGED <<page, budget, hist, cur>>
       ELSE \E o \in Outcomes :
            LET taluk == cur.taluks[cur.ti]
                r == navigate_to_taluk_and_get_shops(page, Alive, taluk, o)
            IN  /\ Env(o, r.clicked)
                /\ budget' = budget - Cost(o)
                /\ page' = r.page
                /\ hist' = [Forward(hist) EXCEPT !.tvisited = @ \cup {taluk}]
                /\ IF r.list = <<>>
                   THEN /\ cur' = [cur EXCEPT !.taluk = taluk]
                        /\ pc' = "f_skip_taluk"
                   ELSE IF ShopInList(r.list, cur.shop_id, cur.idkind)
                        THEN /\ cur' = [cur EXCEPT !.taluk = taluk, !.matched = TRUE]
                             /\ pc' = "f_visit"
                        ELSE /\ cur' = [cur EXCEPT !.taluk = taluk]
                             /\ pc' = "f_no_match"
    /\ UNCHANGED <<crawl_vars, input, shop_list, idx, results, disk, driver, quits, asc>>

\* lines 84-103: visit the shop; without details the record is built from
\* the row, with status Unknown.  An exception leaves find_shop_by_id and is
\* caught at line 222.
VisitShop ==
    /\ pc = "f_visit"
    /\ \E o \in Outcomes, io \in {"ok", "fail"} :
        LET r == navigate_to_shop_and_get_details(page, Alive, cur.shop_id, o, io) IN
        /\ Env(o, r.clicked)
        /\ io = "ok" \/ r.clicked
        /\ Cost(o) + (IF io = "ok" THEN 0 ELSE 1) <= budget
        /\ budget' = budget - (Cost(o) + (IF io = "ok" THEN 0 ELSE 1))
        /\ page' = r.page
        /\ IF r.ret = "raise"
           THEN /\ pc' = "l_finally"
                /\ UNCHANGED cur
           ELSE /\ cur' = [cur EXCEPT
                            !.status = IF r.ret = "details" THEN r.status ELSE "Unknown"]
                /\ pc' = "f_back_taluk"
    /\ hist' = [hist EXCEPT !.fwd_after_fail = @ \/ hist.pending]
    /\ UNCHANGED <<crawl_vars, input, shop_list, idx, results, disk, driver, quits, asc>>

\* a call of navigate_back_using_breadcrumbs whose result the caller drops
Ascent(level, nextpc, cur2) ==
    /\ \E o \in Outcomes :
        LET r == navigate_back_using_breadcrumbs(page, Alive, level, o) IN
        /\ Env(o, r.ret)
        /\ budget' = budget - Cost(o)
        /\ page' = r.page
        /\ asc' = [level |-> level, ret |-> r.ret, after |-> r.page]
        /\ hist' = [hist EXCEPT !.pending = @ \/ ~r.ret]
    /\ pc' = nextpc
    /\ cur' = cur2
    /\ UNCHANGED <<crawl_vars, input, shop_list, idx, results, disk, driver, quits>>

\* lines 54-57: no taluks, back to State level and on to the next district
SkipDistrict ==
    /\ pc = "f_skip_district"
    /\ Ascent("state", "f_district", [cur EXCEPT !.di = @ + 1])

\* lines 67-70: no shops, back to District level and on to the next taluk
SkipTaluk ==
    /\ pc = "f_skip_taluk"
    /\ Ascent("district", "f_taluk", [cur EXCEPT !.ti = @ + 1])

\* lines 112-114: the shop is not in this taluk
NoMatchBack ==
    /\ pc = "f_no_match"
    /\ Ascent("district", "f_taluk", [cur EXCEPT !.ti = @ + 1])

\* lines 116-117: the shop is not in this district
EndDistrictBack ==
    /\ pc = "f_end_district"
    /\ Ascent("state", "f_district", [cur EXCEPT !.di = @ + 1])

\* line 106
BackToTaluk ==
    /\ pc = "f_back_taluk"
    /\ Ascent("taluk", "f_back_district", cur)

\* line 107
BackToDistrict ==
    /\ pc = "f_back_district"
    /\ Ascent("district", "f_back_state", cur)

\* lines 108-110: back to State level and return the match
BackToStateAndReturn ==
    /\ pc = "f_back_state"
    /\ Ascent("state", "l_record", [cur EXCEPT !.found = TRUE])

-----------------------------------------------------------------------------

Next ==
    \/ ReadInput
    \/ CreateDriver
    \/ SessionTerminates
    \/ LookupMainPage
    \/ NextShopItem
    \/ FindMainPage
    \/ FindReports
    \/ FindDistrict
    \/ FindTaluk
    \/ VisitShop
    \/ SkipDistrict
    \/ SkipTaluk
    \/ NoMatchBack
    \/ EndDistrictBack
    \/ BackToTaluk
    \/ BackToDistrict
    \/ BackToStateAndReturn
    \/ RecordResult
    \/ Finally

Spec == Init /\ [][Next]_vars

\* the steps of the run itself
NextReliable ==
    \/ ReadInput
    \/ CreateDriver
    \/ LookupMainPage
    \/ NextShopItem
    \/ FindMainPage
    \/ FindReports
    \/ FindDistrict
    \/ FindTaluk
    \/ VisitShop
    \/ SkipDistrict
    \/ SkipTaluk
    \/ NoMatchBack
    \/ EndDistrictBack
    \/ BackToTaluk
    \/ BackToDistrict
    \/ BackToStateAndReturn
    \/ RecordResult
    \/ Finally

\* the run against a site, a browser and a file system that never fail
SpecReliable == InitReliable /\ [][NextReliable]_vars

-----------------------------------------------------------------------------
(* main: the full crawl *)

\* the variables the full crawl leaves alone
lookup_vars == <<input, shop_list, idx, results, disk, cur, hist, probe>>

\* main is entered with its arguments, without --shop-list-json
StartCrawl(b) ==
    /\ input = [ok |-> FALSE, shops |-> <<>>]
    /\ pc = "m_create"
    /\ shop_list = <<>>
    /\ idx = 0
    /\ results = InitialResults(0)
    /\ disk = NoDoc
    /\ driver = "none"
    /\ quits = 0
    /\ page = Blank
    /\ cur = NoCall
    /\ budget = b
    /\ asc = NoAscent
    /\ hist = NoHist
    /\ args \in ArgSets
    /\ loc = NoLoc
    /\ summary = EmptySummary
    /\ summary_file = NoFile
    /\ persisted = 0
    /\ probe = NoProbe

\* a crawl in an environment that may fail MaxFaults times
InitCrawl == StartCrawl(MaxFaults)

\* a crawl in an environment that never fails
InitCrawlReliable == StartCrawl(0)

\* lines 2243-2251: webdriver.Chrome(...), outside any try
CrawlCreateDriver ==
    /\ pc = "m_create"
    /\ \/ /\ driver' = "alive"
          /\ pc' = "m_main"
          /\ UNCHANGED budget
       \/ /\ budget > 0
          /\ budget' = budget - 1
          /\ pc' = "m_raised"
          /\ UNCHANGED driver
    /\ UNCHANGED <<lookup_vars, quits, page, asc, args, loc, summary,
                   summary_file, persisted>>

\* lines 2254-2258
CrawlMainPage ==
    /\ pc = "m_main"
    /\ \E o \in Outcomes :
        LET r == navigate_to_main_page(page, Alive, o) IN
        /\ Env(o, Alive)
        /\ budget' = budget - Cost(o)
        /\ page' = r.page
        /\ pc' = IF r.ret THEN "m_reports" ELSE "m_finally"
    /\ UNCHANGED <<lookup_vars, driver, quits, asc, args, loc, summary,
                   summary_file, persisted>>

\* the environment's part in one attempt of
\* navigate_to_pds_reports_and_get_districts, with the outcome om of the
\* reload of the main page and o of the click on 'PDS Reports'
ReportsAttempt(om, o) ==
    /\ Env(om, Alive /\ loc.attempt > 0)
    /\ Env(o, Alive /\ (loc.attempt > 0 \/ page.level # "blank"))
    /\ Cost(om) + Cost(o) <= budget
    /\ budget' = budget - (Cost(om) + Cost(o))
    /\ page' = reports_attempt(page, Alive, loc.attempt, om, o).page

\* lines 2260-2288: the districts, the summary, the district filter and limit
CrawlReports ==
    /\ pc = "m_reports"
    /\ \E om \in Outcomes, o \in Outcomes :
        LET r == reports_attempt(page, Alive, loc.attempt, om, o) IN
        /\ ReportsAttempt(om, o)
        /\ IF r.list # <<>>
           THEN IF Truthy(args.district) /\ ~InList(args.district, r.list)
                THEN /\ pc' = "m_finally"
                     /\ loc' = [loc EXCEPT !.attempt = 0]
                ELSE /\ pc' = "m_district"
                     /\ loc' = [loc EXCEPT
                                !.attempt = 0,
                                !.districts =
                                    IF Truthy(args.district)
                                    THEN <<args.district>>
                                    ELSE Limit(r.list, args.limit_districts),
                                !.di = 1]
           ELSE IF loc.attempt = max_retries - 1
                THEN /\ pc' = "m_finally"
                     /\ loc' = [loc EXCEPT !.attempt = 0]
                ELSE /\ pc' = "m_reports"
                     /\ loc' = [loc EXCEPT !.attempt = @ + 1]
    /\ summary' = EmptySummary
    /\ UNCHANGED <<lookup_vars, driver, quits, asc, args, summary_file, persisted>>

\* lines 2291-2325: the head of the district loop up to the taluk filter; a
\* district without taluks, or without the taluk asked for, is left by
\* 'continue'
CrawlDistrict ==
    /\ pc = "m_district"
    /\ IF loc.di > Len(loc.districts)
       THEN /\ pc' = "m_finally"
            /\ UNCHANGED <<page, budget, loc, summary>>
       ELSE \E o \in Outcomes :
            LET district == loc.districts[loc.di]
                r == navigate_to_district_and_get_taluks(page, Alive, district, o)
            IN  /\ Env(o, r.clicked)
                /\ budget' = budget - Cost(o)
                /\ page' = r.page
                /\ IF r.list = <<>>
                   THEN /\ loc' = [loc EXCEPT !.district = district, !.di = @ + 1]
                        /\ pc' = "m_district"
                        /\ UNCHANGED summary
                   ELSE /\ summary' = AddDistrict(summary, district)
                        /\ IF Truthy(args.taluk) /\ ~InList(args.taluk, r.list)
                           THEN /\ loc' = [loc EXCEPT !.district = district,
                                                      !.di = @ + 1]
                                /\ pc' = "m_district"
                           ELSE /\ loc' = [loc EXCEPT
                                            !.district = district,
                                            !.taluks =
                                                IF Truthy(args.taluk)
                                                THEN <<args.taluk>>
                                                ELSE Limit(r.list, args.limit_taluks),
                                            !.ti = 1]
                                /\ pc' = "m_taluk"
    /\ UNCHANGED <<lookup_vars, driver, quits, asc, args, summary_file, persisted>>

\* lines 2328-2339: the head of the taluk loop; a taluk without shops is
\* left by 'continue'
CrawlTaluk ==
    /\ pc = "m_taluk"
    /\ IF loc.ti > Len(loc.taluks)
       THEN /\ pc' = "m_state_back"
            /\ UNCHANGED <<page, budget, loc>>
       ELSE \E o \in Outcomes :
            LET taluk == loc.taluks[loc.ti]
                r == navigate_to_taluk_and_get_shops(page, Alive, taluk, o)
            IN  /\ Env(o, r.clicked)
                /\ budget' = budget - Cost(o)
                /\ page' = r.page
                /\ IF r.list = <<>>
                   THEN /\ loc' = [loc EXCEPT !.taluk = taluk, !.ti = @ + 1]
                        /\ pc' = "m_taluk"
                   ELSE /\ loc' = [loc EXCEPT !.taluk = taluk, !.shops = r.list]
                        /\ pc' = "m_verify_taluk"
    /\ UNCHANGED <<lookup_vars, driver, quits, asc, args, summary, summary_file,
                   persisted>>

\* lines 2341-2377: verify the taluk page and, if that fails, navigate to
\* the district and the taluk again; then the taluk record and the shop
\* filter and limit.  The shop filter reads all_shops, a name that is bound
\* nowhere: the NameError is caught at line 2464.
CrawlVerifyTaluk ==
    /\ pc = "m_verify_taluk"
    /\ \E o1 \in Outcomes, o2 \in Outcomes :
        LET ok == check_navigation_state(page, Alive, "taluk", loc.district, loc.taluk)
            r1 == navigate_to_district_and_get_taluks(page, Alive, loc.district, o1)
            r2 == navigate_to_taluk_and_get_shops(r1.page, Alive, loc.taluk, o2)
            shops == IF ok THEN loc.shops ELSE r2.list
        IN  /\ Env(o1, ~ok /\ r1.clicked)
            /\ Env(o2, ~ok /\ r2.clicked)
            /\ Cost(o1) + Cost(o2) <= budget
            /\ budget' = budget - (Cost(o1) + Cost(o2))
            /\ page' = IF ok THEN page ELSE r2.page
            /\ IF shops = <<>>
               THEN /\ loc' = [loc EXCEPT !.ti = @ + 1]
                    /\ pc' = "m_taluk"
                    /\ UNCHANGED summary
               ELSE /\ summary' = AddTaluk(summary, loc.district, loc.taluk, Len(shops))
                    /\ IF Truthy(args.shop)
                       THEN /\ loc' = [loc EXCEPT !.shops = shops]
                            /\ pc' = "m_finally"
                       ELSE /\ loc' = [loc EXCEPT
                                        !.shops = Limit(shops, args.limit_shops),
                                        !.si = 1]
                            /\ pc' = "m_shop"
    /\ UNCHANGED <<lookup_vars, driver, quits, asc, args, summary_file, persisted>>

\* lines 2380-2419: the head of the shop loop and the visit; a row without
\* the key 'SHOP CODE' raises KeyError, a visit on a terminated session
\* raises; a visit that returns False stores nothing
CrawlShop ==
    /\ pc = "m_shop"
    /\ IF loc.si > Len(loc.shops)
       THEN /\ pc' = "m_taluk_back"
            /\ UNCHANGED <<page, budget, loc, summary>>
       ELSE IF loc.shops[loc.si].kind # "shop"
       THEN /\ pc' = "m_finally"
            /\ UNCHANGED <<page, budget, loc, summary>>
       ELSE \E o \in Outcomes, io \in {"ok", "fail"} :
            LET shop_id == ShopCode(loc.shops[loc.si])
                r == navigate_to_shop_and_get_details(page, Alive, shop_id, o, io)
                shop_status ==
                    summary_status(IF r.page.level = "shop"
                                   THEN ContentOf(r.page.s)
                                   ELSE Content(<<>>, {}))
            IN  /\ Env(o, r.clicked)
                /\ io = "ok" \/ r.clicked
                /\ Cost(o) + (IF io = "ok" THEN 0 ELSE 1) <= budget
                /\ budget' = budget - (Cost(o) + (IF io = "ok" THEN 0 ELSE 1))
                /\ page' = r.page
                /\ loc' = [loc EXCEPT !.success = (r.ret = "details")]
                /\ IF r.ret = "raise"
                   THEN /\ pc' = "m_finally"
                        /\ UNCHANGED summary
                   ELSE /\ pc' = "m_open"
                        /\ summary' =
                            IF r.ret = "details"
                            THEN AddShop(summary, loc.district, loc.taluk,
                                         shop_id, shop_status)
                            ELSE summary
    /\ UNCHANGED <<lookup_vars, driver, quits, asc, args, summary_file, persisted>>

\* line 2422: open(summary_file, 'w') truncates the file
CrawlOpenSummary ==
    /\ pc = "m_open"
    /\ \/ /\ summary_file' = [state |-> "partial", doc |-> EmptySummary]
          /\ pc' = "m_dump"
          /\ UNCHANGED budget
       \/ /\ budget > 0
          /\ budget' = budget - 1
          /\ pc' = "m_finally"
          /\ UNCHANGED summary_file
    /\ UNCHANGED <<lookup_vars, driver, quits, page, asc, args, loc, summary,
                   persisted>>

\* line 2423: json.dump(summary, f) and the close of the file
CrawlDumpSummary ==
    /\ pc = "m_dump"
    /\ \/ /\ summary_file' = [state |-> "complete", doc |-> summary]
          /\ persisted' = persisted + 1
          /\ pc' = "m_return"
          /\ UNCHANGED budget
       \/ /\ budget > 0
          /\ budget' = budget - 1
          /\ pc' = "m_finally"
          /\ UNCHANGED <<summary_file, persisted>>
    /\ UNCHANGED <<lookup_vars, driver, quits, page, asc, args, loc, summary>>

\* lines 2425-2427: back to the list of shops of the taluk, the results of
\* both calls dropped; then the next shop
CrawlReturnToTaluk ==
    /\ pc = "m_return"
    /\ \E o1 \in Outcomes, o2 \in Outcomes :
        LET r1 == navigate_to_district_and_get_taluks(page, Alive, loc.district, o1)
            r2 == navigate_to_taluk_and_get_shops(r1.page, Alive, loc.taluk, o2)
        IN  /\ Env(o1, r1.clicked)
            /\ Env(o2, r2.clicked)
            /\ Cost(o1) + Cost(o2) <= budget
            /\ budget' = budget - (Cost(o1) + Cost(o2))
            /\ page' = r2.page
    /\ loc' = [loc EXCEPT !.si = @ + 1]
    /\ pc' = "m_shop"
    /\ UNCHANGED <<lookup_vars, driver, quits, asc, args, summary, summary_file,
                   persisted>>

\* a call of navigate_back_using_breadcrumbs by main, which takes the
\* branch of the result
CrawlAscent(level, onTrue, onFalse) ==
    \E o \in Outcomes :
        LET r == navigate_back_using_breadcrumbs(page, Alive, level, o) IN
        /\ Env(o, r.ret)
        /\ budget' = budget - Cost(o)
        /\ page' = r.page
        /\ asc' = [level |-> level, ret |-> r.ret, after |-> r.page]
        /\ pc' = IF r.ret THEN onTrue ELSE onFalse

\* a call of navigate_to_pds_reports_and_get_districts whose result main
\* drops: its attempts, one per step
CrawlRenavigate(nextpc) ==
    \E om \in Outcomes, o \in Outcomes :
        LET r == reports_attempt(page, Alive, loc.attempt, om, o) IN
        /\ ReportsAttempt(om, o)
        /\ IF r.list # <<>> \/ loc.attempt = max_retries - 1
           THEN /\ loc' = [loc EXCEPT !.attempt = 0]
                /\ pc' = nextpc
           ELSE /\ loc' = [loc EXCEPT !.attempt = @ + 1]
                /\ pc' = pc

\* a call of navigate_to_district_and_get_taluks whose result main drops
CrawlRedistrict ==
    \E o \in Outcomes :
        LET r == navigate_to_district_and_get_taluks(page, Alive, loc.district, o) IN
        /\ Env(o, r.clicked)
        /\ budget' = budget - Cost(o)
        /\ page' = r.page

\* lines 2429-2439: after the shops of a taluk, back to the district page
\* by the breadcrumb, else by the reports link and the district row; then
\* the verification and its reset, and the next taluk
CrawlBackToDistrict ==
    /\ \/ /\ pc = "m_taluk_back"
          /\ CrawlAscent("district", "m_verify_district", "m_tb_reports")
          /\ UNCHANGED loc
       \/ /\ pc = "m_tb_reports"
          /\ CrawlRenavigate("m_tb_district")
          /\ UNCHANGED asc
       \/ /\ pc = "m_tb_district"
          /\ CrawlRedistrict
          /\ pc' = "m_verify_district"
          /\ UNCHANGED <<loc, asc>>
       \/ /\ pc = "m_verify_district"
          /\ IF check_navigation_state(page, Alive, "district", loc.district, None)
             THEN /\ pc' = "m_taluk"
                  /\ loc' = [loc EXCEPT !.ti = @ + 1]
             ELSE /\ pc' = "m_vd_reports"
                  /\ UNCHANGED loc
          /\ UNCHANGED <<page, budget, asc>>
       \/ /\ pc = "m_vd_reports"
          /\ CrawlRenavigate("m_vd_district")
          /\ UNCHANGED asc
       \/ /\ pc = "m_vd_district"
          /\ CrawlRedistrict
          /\ pc' = "m_taluk"
          /\ loc' = [loc EXCEPT !.ti = @ + 1]
          /\ UNCHANGED asc
    /\ UNCHANGED <<lookup_vars, driver, quits, args, summary, summary_file,
                   persisted>>

\* lines 2441-2449: after the taluks of a district, back to the State page
\* by the breadcrumb, else by the reports link; then the verification and
\* its reset, and the next district
CrawlBackToState ==
    /\ \/ /\ pc = "m_state_back"
          /\ CrawlAscent("state", "m_verify_state", "m_sb_reports")
          /\ UNCHANGED loc
       \/ /\ pc = "m_sb_reports"
          /\ CrawlRenavigate("m_verify_state")
          /\ UNCHANGED asc
       \/ /\ pc = "m_verify_state"
          /\ IF check_navigation_state(page, Alive, "state", None, None)
             THEN /\ pc' = "m_district"
                  /\ loc' = [loc EXCEPT !.di = @ + 1]
             ELSE /\ pc' = "m_vs_reports"
                  /\ UNCHANGED loc
          /\ UNCHANGED <<page, budget, asc>>
       \/ /\ pc = "m_vs_reports"
          /\ \E om \in Outcomes, o \in Outcomes :
                LET r == reports_attempt(page, Alive, loc.attempt, om, o) IN
                /\ ReportsAttempt(om, o)
                /\ IF r.list # <<>> \/ loc.attempt = max_retries - 1
                   THEN /\ loc' = [loc EXCEPT !.attempt = 0, !.di = @ + 1]
                        /\ pc' = "m_district"
                   ELSE /\ loc' = [loc EXCEPT !.attempt = @ + 1]
                        /\ pc' = pc
          /\ UNCHANGED asc
    /\ UNCHANGED <<lookup_vars, driver, quits, args, summary, summary_file,
                   persisted>>

\* lines 2468-2472: the final screenshot, then driver.quit(); a screenshot
\* that raises (the session is gone, or the file cannot be written) leaves
\* main before the quit
CrawlFinally ==
    /\ pc = "m_finally"
    /\ \/ /\ Alive
          /\ driver' = "quit"
          /\ quits' = quits + 1
          /\ pc' = "m_done"
          /\ UNCHANGED budget
       \/ /\ ~Alive
          /\ pc' = "m_raised"
          /\ UNCHANGED <<driver, quits, budget>>
       \/ /\ Alive
          /\ budget > 0
          /\ budget' = budget - 1
          /\ pc' = "m_raised"
          /\ UNCHANGED <<driver, quits>>
    /\ UNCHANGED <<lookup_vars, page, asc, args, loc, summary, summary_file,
                   persisted>>

\* the positions of main between the creation of the driver and its end
Running ==
    {"m_main", "m_reports", "m_district", "m_taluk", "m_verify_taluk",
     "m_shop", "m_open", "m_dump", "m_return", "m_taluk_back", "m_tb_reports",
     "m_tb_district", "m_verify_district", "m_vd_reports", "m_vd_district",
     "m_state_back", "m_sb_reports", "m_verify_state", "m_vs_reports",
     "m_finally"}

\* the process is killed, or the machine stops: nothing runs afterwards,
\* not even the finally clause
Crash ==
    /\ pc \in Running
    /\ budget > 0
    /\ budget' = budget - 1
    /\ pc' = "crashed"
    /\ UNCHANGED <<lookup_vars, driver, quits, page, asc, args, loc, summary,
                   summary_file, persisted>>

NextCrawl ==
    \/ CrawlCreateDriver
    \/ CrawlMainPage
    \/ CrawlReports
    \/ CrawlDistrict
    \/ CrawlTaluk
    \/ CrawlVerifyTaluk
    \/ CrawlShop
    \/ CrawlOpenSummary
    \/ CrawlDumpSummary
    \/ CrawlReturnToTaluk
    \/ CrawlBackToDistrict
    \/ CrawlBackToState
    \/ CrawlFinally
    \/ SessionTerminates
    \/ Crash

\* main, with the failures of the environment
SpecCrawl == InitCrawl /\ [][NextCrawl]_vars

NextCrawlReliable ==
    \/ CrawlCreateDriver
    \/ CrawlMainPage
    \/ CrawlReports
    \/ CrawlDistrict
    \/ CrawlTaluk
    \/ CrawlVerifyTaluk
    \/ CrawlShop
    \/ CrawlOpenSummary
    \/ CrawlDumpSummary
    \/ CrawlReturnToTaluk
    \/ CrawlBackToDistrict
    \/ CrawlBackToState
    \/ CrawlFinally

\* main on a site that answers every request and a machine that stays up
SpecCrawlReliable == InitCrawlReliable /\ [][NextCrawlReliable]_vars

-----------------------------------------------------------------------------
(* The status server (app.py) beside a run of the targeted lookup.  The    *)
(* finally clause of process_shop_list_json writes the results file in two *)
(* steps: open(output_json, 'w') creates or truncates the file, json.dump  *)
(* fills it.  probe.writing says that the file is open and not yet whole;  *)
(* probe.response is the answer to the last request.                       *)

\* no request answered yet
NoResponse == [endpoint |-> "none", status |-> "none", code |-> 0, values |-> None]

\* the server before its first request
Serving == [kind |-> "serve", writing |-> FALSE, response |-> NoResponse]

\* os.path.exists(results_file)
FileExists == disk.written \/ probe.writing

\* the file holds a whole document
FileWhole == disk.written /\ ~probe.writing

\* the values the endpoints take from a document (app.py lines 157-161, 179-183)
DocumentValues(doc) ==
    [shops_checked |-> doc.total_shops_checked, shops_found |-> doc.shops_found,
     online_shops |-> doc.online_shops, offline_shops |-> doc.offline_shops]

\* app.py lines 136-167: the dashboard; json.load raises on a file that is
\* not whole and the page shows the error with the default values
serve_index(exists, whole, doc) ==
    IF ~exists
    THEN [endpoint |-> "index", status |-> "running", code |-> 200, values |-> None]
    ELSE IF ~whole
    THEN [endpoint |-> "index", status |-> "Error reading results", code |-> 200,
          values |-> None]
    ELSE [endpoint |-> "index", status |-> "success", code |-> 200,
          values |-> DocumentValues(doc)]

\* app.py lines 169-194
serve_status(exists, whole, doc) ==
    IF ~exists
    THEN [endpoint |-> "status", status |-> "pending", code |-> 200, values |-> None]
    ELSE IF ~whole
    THEN [endpoint |-> "status", status |-> "error", code |-> 500, values |-> None]
    ELSE [endpoint |-> "status", status |-> "success", code |-> 200,
          values |-> DocumentValues(doc)]

\* app.py lines 196-212: send_file sends the bytes the file holds
serve_results(exists, whole, doc) ==
    IF ~exists
    THEN [endpoint |-> "results", status |-> "pending", code |-> 404, values |-> None]
    ELSE IF ~whole
    THEN [endpoint |-> "results", status |-> "partial file", code |-> 200,
          values |-> None]
    ELSE [endpoint |-> "results", status |-> "success", code |-> 200,
          values |-> DocumentValues(doc)]

\* the lookup is entered while the server runs; the environment never fails
InitServe ==
    /\ input \in [ok : {TRUE}, shops : InputLists] \cup {[ok |-> FALSE, shops |-> <<>>]}
    /\ pc = "read"
    /\ shop_list = <<>>
    /\ idx = 0
    /\ results = InitialResults(0)
    /\ disk = NoDoc
    /\ driver = "none"
    /\ quits = 0
    /\ page = Blank
    /\ cur = NoCall
    /\ budget = 0
    /\ asc = NoAscent
    /\ hist = NoHist
    /\ args = NoArgs
    /\ loc = NoLoc
    /\ summary = EmptySummary
    /\ summary_file = NoFile
    /\ persisted = 0
    /\ probe = Serving

\* the variables a request leaves alone
served_vars == <<input, pc, shop_list, idx, results, disk, driver, quits, page,
                 cur, budget, asc, hist, args, loc, summary, summary_file,
                 persisted>>

\* crawai_pds_selenium.py lines 224-230: open(output_json, 'w')
FinallyOpen ==
    /\ pc = "l_finally"
    /\ probe' = [probe EXCEPT !.writing = TRUE]
    /\ pc' = "l_dump"
    /\ UNCHANGED <<input, shop_list, idx, results, disk, driver, quits, page,
                   cur, budget, asc, hist, args, loc, summary, summary_file,
                   persisted>>

\* crawai_pds_selenium.py lines 230-238: json.dump, the file is closed, then
\* driver.quit()
FinallyDump ==
    /\ pc = "l_dump"
    /\ disk' = Written(results)
    /\ probe' = [probe EXCEPT !.writing = FALSE]
    /\ driver' = "quit"
    /\ quits' = quits + 1
    /\ pc' = "done"
    /\ UNCHANGED <<input, shop_list, idx, results, page, cur, budget, asc, hist,
                   args, loc, summary, summary_file, persisted>>

\* a request for the dashboard
RequestIndex ==
    /\ probe.kind = "serve"
    /\ probe' = [probe EXCEPT !.response = serve_index(FileExists, FileWhole, disk)]
    /\ UNCHANGED served_vars

\* a request for /status
RequestStatus ==
    /\ probe.kind = "serve"
    /\ probe' = [probe EXCEPT !.response = serve_status(FileExists, FileWhole, disk)]
    /\ UNCHANGED served_vars

\* a request for /results
RequestResults ==
    /\ probe.kind = "serve"
    /\ probe' = [probe EXCEPT !.response = serve_results(FileExists, FileWhole, disk)]
    /\ UNCHANGED served_vars

NextServe ==
    \/ ReadInput
    \/ CreateDriver
    \/ LookupMainPage
    \/ NextShopItem
    \/ FindMainPage
    \/ FindReports
    \/ FindDistrict
    \/ FindTaluk
    \/ VisitShop
    \/ SkipDistrict
    \/ SkipTaluk
    \/ NoMatchBack
    \/ EndDistrictBack
    \/ BackToTaluk
    \/ BackToDistrict
    \/ BackToStateAndReturn
    \/ RecordResult
    \/ FinallyOpen
    \/ FinallyDump
    \/ RequestIndex
    \/ RequestStatus
    \/ RequestResults

\* the server answering requests while the lookup runs
SpecServe == InitServe /\ [][NextServe]_vars

-----------------------------------------------------------------------------
(* Single calls of the extraction and navigation functions, on every page  *)
(* content, table shape and page of the bounds                             *)

\* most elements the status selector matches on a page
MaxElements == 2

\* most header cells of a table
MaxHeaders == 3

\* most cells of a data row
MaxCells == 4

\* the page contents: the matched elements and the other texts
Contents ==
    { Content(e, o) :
        e \in UNION { [1..n -> Fragments] : n \in 0..MaxElements },
        o \in SUBSET Fragments }

\* the header rows: distinct texts, "" an empty header cell
HeaderLists ==
    { h \in UNION { [1..n -> {"A", "B", ""}] : n \in 0..MaxHeaders } :
        \A i, j \in 1..Len(h) : h[i] = h[j] => i = j }

\* the extraction loops of the source
ExtractPaths == {"shop_list", "shop_page", "extract_shop_details"}

\* the pages of the site
Pages ==
    {Blank, MainPage, StatePage}
    \cup { DistrictPage(x[1]) : x \in AllShops }
    \cup { TalukPage(x[1], x[2]) : x \in AllShops }
    \cup { ShopPage(x[1], x[2], x[3]) : x \in AllShops }

\* the names a forward transition is asked for
Names == {"D1", "D3", "DX", "T1", "T3", "T5", "TX", "S1", "S5", "SX"}

StatusProbes ==
    [kind : {"status"}, arg : Contents, done : {FALSE}, out : {NoProbe}]

RowProbes ==
    [kind : {"row"},
     arg : [path : ExtractPaths, headers : HeaderLists, cells : 0..MaxCells],
     done : {FALSE}, out : {NoProbe}]

ForwardProbes ==
    [kind : {"forward"},
     arg : [op : {"district", "taluk", "shop"}, page : Pages, name : Names,
            alive : BOOLEAN, o : Outcomes],
     done : {FALSE}, out : {NoProbe}]

\* the levels an ascent is asked for
Levels == {"state", "district", "taluk"}

\* two ascents in a row from a page
AscentProbes ==
    [kind : {"ascents"},
     arg : [page : Pages, first : Levels, second : Levels, alive : BOOLEAN,
            o1 : Outcomes, o2 : Outcomes],
     done : {FALSE}, out : {NoProbe}]

\* the paths of the hierarchy: district, taluk and, below the taluk, a shop
\* ("" for a path that ends at the taluk)
Paths ==
    { [d |-> x[1], t |-> x[2], s |-> x[3]] : x \in AllShops }
    \cup { [d |-> x[1], t |-> x[2], s |-> ""] : x \in AllShops }

\* an ascent from the page of a path, followed by the descent along the path
RoundTripProbes ==
    [kind : {"roundtrip"},
     arg : [path : Paths, level : Levels, o : Outcomes],
     done : {FALSE}, out : {NoProbe}]

\* the forward transitions along a path, from a page at the given level,
\* on a live session that applies every click: ok says that every
\* transition returned its result, snapshot is the result of the last one
Descend(pg, path, level) ==
    LET r1 == IF level = "state"
              THEN navigate_to_district_and_get_taluks(pg, TRUE, path.d, "applied")
              ELSE [ret |-> "list", list |-> <<>>, page |-> pg]
        r2 == IF level \in {"state", "district"}
              THEN navigate_to_taluk_and_get_shops(r1.page, TRUE, path.t, "applied")
              ELSE [ret |-> "list", list |-> <<>>, page |-> r1.page]
        r3 == IF path.s # ""
              THEN navigate_to_shop_and_get_details(r2.page, TRUE, path.s,
                                                    "applied", "ok")
              ELSE [ret |-> "details", status |-> None, page |-> r2.page]
    IN  [ok |-> r1.ret = "list" /\ r2.ret = "list" /\ r3.ret = "details",
         page |-> r3.page,
         snapshot |-> IF path.s # "" THEN <<r3.status>> ELSE r2.list]

\* most tables of a shop page
MaxTables == 2

\* most labels of a shop page
MaxLabels == 2

\* the labels of a shop page: the text of the label and of its neighbour
LabelPairs ==
    [text : {"status:", "Status:", "Table1", ":"}, value : {"Active", ""}]

\* shop pages: their status texts, tables and labels
DetailProbes ==
    [kind : {"details"},
     arg : [content : {Content(<<>>, {}), Content(<<"Online">>, {}),
                       Content(<<>>, {"Online Status: Offline"})},
            tables : UNION { [1..n -> BOOLEAN] : n \in 0..MaxTables },
            labels : UNION { [1..n -> LabelPairs] : n \in 0..MaxLabels }],
     done : {FALSE}, out : {NoProbe}]

\* most data rows of a table of a shop page
MaxRows == 2

\* the tables of a shop page: header texts and the cells of each data row
TableShapes ==
    [headers : {<<"Amount">>, <<"Bill Number", "Amount">>, <<"Amount", "BILL NO">>},
     rows : UNION { [1..n -> {1, 2}] : n \in 0..MaxRows }]

\* shop pages read by extract_shop_details
TransactionProbes ==
    [kind : {"transactions"},
     arg : UNION { [1..n -> TableShapes] : n \in 0..MaxTables },
     done : {FALSE}, out : {NoProbe}]

\* most table elements of a shop page
MaxPageTables == 6

\* a table without bill header, with one row of data
PlainTable == [headers |-> <<"Amount">>, rows |-> <<1>>]

\* shop pages with one transaction table among plain tables
Layouts ==
    { [i \in 1..n |-> IF i = p THEN t ELSE PlainTable] :
        n \in 1..MaxPageTables, p \in 1..MaxPageTables,
        t \in { x \in TableShapes : bill_number_index(x.headers) # 0 } }

LastBillProbes ==
    [kind : {"last_bill"}, arg : Layouts, done : {FALSE}, out : {NoProbe}]

\* a shop visit that reaches the drill-down, and the step that fails
DrillProbes ==
    [kind : {"drill"},
     arg : [view : BOOLEAN, close_button : BOOLEAN,
            fail_at : {DrillSteps[i] : i \in 1..Len(DrillSteps)} \cup {"none"}],
     done : {FALSE}, out : {NoProbe}]

\* most elements of a page that match a selector of a chain
MaxCandidates == 3

\* the elements of a page: the selectors they match and their body rows
Candidates ==
    [matches : SUBSET {".ui-datatable", "table.dataTable",
                       "table:not(.ui-menu-list)"},
     rows : {1, 2}]

\* pages resolved with the chain of the taluk table or of the shop table
ResolveProbes ==
    [kind : {"resolve"},
     arg : [chain : {"taluk", "shop"},
            elements : UNION { [1..n -> Candidates] : n \in 0..MaxCandidates }],
     done : {FALSE}, out : {NoProbe}]

\* longest page update, in seconds
MaxSeconds == 4

\* the navigation actions of the crawl
SyncOps ==
    {"language_radio", "language_link", "reports", "district", "taluk", "shop",
     "ascent", "view", "close"}

\* a navigation action and the page update it starts; the dialog of the
\* drill-down is shown and hidden in the document
SyncProbes ==
    [kind : {"sync"},
     arg : { a \in [op : SyncOps, update : {"reload", "ajax"}, seconds : 0..MaxSeconds] :
                a.op \in {"view", "close"} => a.update = "ajax" },
     done : {FALSE}, out : {NoProbe}]

\* pages on which wait_for_ajax is called
AjaxProbes ==
    [kind : {"ajax"},
     arg : [jquery : BOOLEAN, busy : 0..MaxPolls, ready : {"loading", "complete"},
            alive : BOOLEAN],
     done : {FALSE}, out : {NoProbe}]

\* calls of the root navigation: the page shown, the session, and what the
\* site does with the reload and the click of each pass
ReportsProbes ==
    [kind : {"reports"},
     arg : [page : Pages, alive : BOOLEAN,
            outcomes : [1..max_retries -> [om : Outcomes, o : Outcomes]]],
     done : {FALSE}, out : {NoProbe}]

\* calls of check_navigation_state: the page shown and the level and path
\* expected
StateCheckProbes ==
    [kind : {"state_check"},
     arg : [page : Pages, alive : BOOLEAN,
            expected_level : {"state", "district", "taluk", "shop"},
            district : {None, "D1", "D2"}, taluk : {None, "T1", "T4"}],
     done : {FALSE}, out : {NoProbe}]

\* the variables of the runs
run_vars == <<input, pc, shop_list, idx, results, disk, driver, quits, page,
              cur, budget, asc, hist, args, loc, summary, summary_file,
              persisted>>

InitExtract ==
    /\ input = [ok |-> FALSE, shops |-> <<>>]
    /\ pc = "probe"
    /\ shop_list = <<>>
    /\ idx = 0
    /\ results = InitialResults(0)
    /\ disk = NoDoc
    /\ driver = "none"
    /\ quits = 0
    /\ page = Blank
    /\ cur = NoCall
    /\ budget = 0
    /\ asc = NoAscent
    /\ hist = NoHist
    /\ args = NoArgs
    /\ loc = NoLoc
    /\ summary = EmptySummary
    /\ summary_file = NoFile
    /\ persisted = 0
    /\ probe \in StatusProbes \cup RowProbes \cup ForwardProbes \cup AscentProbes
                \cup RoundTripProbes \cup DetailProbes
                \cup TransactionProbes \cup LastBillProbes
                \cup DrillProbes \cup ResolveProbes \cup SyncProbes
                \cup AjaxProbes \cup ReportsProbes \cup StateCheckProbes

\* lines 1950-1977, 2175 and 2393: the status of a page content as stored in
\* the details, as returned by the visit, and as main stores it
DetectStatus ==
    /\ pc = "probe"
    /\ probe.kind = "status"
    /\ ~probe.done
    /\ probe' = [probe EXCEPT
                    !.done = TRUE,
                    !.out = [details |-> detect_status(probe.arg),
                             returned |-> simplified_status(probe.arg),
                             summary |-> summary_status(probe.arg)]]
    /\ UNCHANGED run_vars

\* one data row through one of the extraction loops
ExtractRow ==
    /\ pc = "probe"
    /\ probe.kind = "row"
    /\ ~probe.done
    /\ probe' = [probe EXCEPT
                    !.done = TRUE,
                    !.out = IF probe.arg.path = "extract_shop_details"
                            THEN extract_shop_details_row(probe.arg.headers,
                                                          probe.arg.cells)
                            ELSE extract_row(probe.arg.headers, probe.arg.cells)]
    /\ UNCHANGED run_vars

\* one forward transition from a page
ForwardTransition ==
    /\ pc = "probe"
    /\ probe.kind = "forward"
    /\ ~probe.done
    /\ LET a == probe.arg
           r == CASE a.op = "district" ->
                        navigate_to_district_and_get_taluks(a.page, a.alive, a.name, a.o)
                  [] a.op = "taluk" ->
                        navigate_to_taluk_and_get_shops(a.page, a.alive, a.name, a.o)
                  [] a.op = "shop" ->
                        navigate_to_shop_and_get_details(a.page, a.alive, a.name, a.o, "ok")
       IN  probe' = [probe EXCEPT
                        !.done = TRUE,
                        !.out = [ret |-> r.ret, fail |-> r.fail, page |-> r.page]]
    /\ UNCHANGED run_vars

\* two calls of navigate_back_using_breadcrumbs, the second on the page the
\* first has left
AscentSequence ==
    /\ pc = "probe"
    /\ probe.kind = "ascents"
    /\ ~probe.done
    /\ LET a == probe.arg
           r1 == navigate_back_using_breadcrumbs(a.page, a.alive, a.first, a.o1)
           r2 == navigate_back_using_breadcrumbs(r1.page, a.alive, a.second, a.o2)
       IN  probe' = [probe EXCEPT
                        !.done = TRUE,
                        !.out = [ret1 |-> r1.ret, page1 |-> r1.page,
                                 ret2 |-> r2.ret, page2 |-> r2.page]]
    /\ UNCHANGED run_vars

\* the descent to a path from the State page, an ascent by the breadcrumb
\* and the descent from the page the ascent has left
RoundTrip ==
    /\ pc = "probe"
    /\ probe.kind = "roundtrip"
    /\ ~probe.done
    /\ LET a == probe.arg
           before == Descend(StatePage, a.path, "state")
           up == navigate_back_using_breadcrumbs(before.page, TRUE, a.level, a.o)
           after == Descend(up.page, a.path, a.level)
       IN  probe' = [probe EXCEPT
                        !.done = TRUE,
                        !.out = [reached |-> before.ok, before |-> before,
                                 ascended |-> up.ret, top |-> up.page,
                                 after |-> after]]
    /\ UNCHANGED run_vars

\* lines 1947-2024: the three passes over a shop page
ExtractDetails ==
    /\ pc = "probe"
    /\ probe.kind = "details"
    /\ ~probe.done
    /\ LET a == probe.arg
           d1 == status_pass(a.content)
           d2 == table_sweep(d1, a.tables, 1)
           d3 == label_sweep(d2, a.labels, 1)
       IN  probe' = [probe EXCEPT
                        !.done = TRUE,
                        !.out = [status_pass |-> d1, table_sweep |-> d2,
                                 shop_details |-> d3]]
    /\ UNCHANGED run_vars

\* lines 838-891: the transactions collected from the tables of a page
ExtractTransactions ==
    /\ pc = "probe"
    /\ probe.kind = "transactions"
    /\ ~probe.done
    /\ probe' = [probe EXCEPT
                    !.done = TRUE,
                    !.out = [transactions |->
                                extract_transactions(probe.arg, 1, <<>>)]]
    /\ UNCHANGED run_vars

\* lines 2045-2056: the last transaction of a page
LastTransaction ==
    /\ pc = "probe"
    /\ probe.kind = "last_bill"
    /\ ~probe.done
    /\ probe' = [probe EXCEPT !.done = TRUE, !.out = last_bill(probe.arg)]
    /\ UNCHANGED run_vars

\* lines 2045-2188: the drill-down of a shop visit; without a View link the
\* steps after "locate" are not made, and the Escape key is sent outside
\* of "close", the click on the close control
DrillDown ==
    /\ pc = "probe"
    /\ probe.kind = "drill"
    /\ ~probe.done
    /\ probe.arg.view \/ StepIndex(probe.arg.fail_at) \notin
                            (StepIndex("locate") + 1)..Len(DrillSteps)
    /\ probe.arg.close_button \/ probe.arg.fail_at # "close"
    /\ probe' = [probe EXCEPT
                    !.done = TRUE,
                    !.out = drill_down(probe.arg.view, probe.arg.close_button,
                                       probe.arg.fail_at)]
    /\ UNCHANGED run_vars

\* lines 1608-1629 and 1871-1893: the table of a page is resolved, and
\* resolved once more on the same page
ResolveChain ==
    /\ pc = "probe"
    /\ probe.kind = "resolve"
    /\ ~probe.done
    /\ LET chain == IF probe.arg.chain = "taluk"
                    THEN taluk_table_selectors ELSE shop_table_selectors
       IN  probe' = [probe EXCEPT
                        !.done = TRUE,
                        !.out = [table |-> resolve_table(chain, probe.arg.elements, 1),
                                 again |-> resolve_table(chain, probe.arg.elements, 1)]]
    /\ UNCHANGED run_vars

\* a navigation action, the steps after it and the next read of the page
NavigateAndRead ==
    /\ pc = "probe"
    /\ probe.kind = "sync"
    /\ ~probe.done
    /\ probe' = [probe EXCEPT
                    !.done = TRUE,
                    !.out = run_sync(sync_steps(probe.arg.op), 1, probe.arg.update,
                                     probe.arg.seconds, FALSE)]
    /\ UNCHANGED run_vars

\* lines 253-259: one call of wait_for_ajax
WaitForAjax ==
    /\ pc = "probe"
    /\ probe.kind = "ajax"
    /\ ~probe.done
    /\ probe' = [probe EXCEPT
                    !.done = TRUE,
                    !.out = wait_for_ajax(probe.arg.jquery, probe.arg.busy,
                                          probe.arg.ready, probe.arg.alive)]
    /\ UNCHANGED run_vars

\* lines 1388-1479: one call of the root navigation
RootNavigation ==
    /\ pc = "probe"
    /\ probe.kind = "reports"
    /\ ~probe.done
    /\ probe' = [probe EXCEPT
                    !.done = TRUE,
                    !.out = navigate_to_pds_reports_and_get_districts(
                                probe.arg.page, probe.arg.alive, 0,
                                probe.arg.outcomes)]
    /\ UNCHANGED run_vars

\* lines 1298-1367: one call of check_navigation_state
StateCheck ==
    /\ pc = "probe"
    /\ probe.kind = "state_check"
    /\ ~probe.done
    /\ probe' = [probe EXCEPT
                    !.done = TRUE,
                    !.out = [ret |-> check_navigation_state(
                                        probe.arg.page, probe.arg.alive,
                                        probe.arg.expected_level,
                                        probe.arg.district, probe.arg.taluk)]]
    /\ UNCHANGED run_vars

NextExtract ==
    \/ StateCheck
    \/ RootNavigation
    \/ WaitForAjax
    \/ NavigateAndRead
    \/ ResolveChain
    \/ DrillDown
    \/ LastTransaction
    \/ ExtractTransactions
    \/ ExtractDetails
    \/ AscentSequence
    \/ RoundTrip
    \/ DetectStatus
    \/ ExtractRow
    \/ ForwardTransition

SpecExtract == InitExtract /\ [][NextExtract]_vars

-----------------------------------------------------------------------------
(* Properties *)

\* the shop id is the code of a shop of the hierarchy, within the hinted
\* district and taluk when hints are given
Present(id, known_district, known_taluk) ==
    \E x \in AllShops :
        /\ x[3] = id
        /\ Truthy(known_district) => x[1] = known_district
        /\ Truthy(known_taluk) => x[2] = known_taluk

\* what the normalisation of one entry of "shops" is to yield
NormalizedEntry(e) ==
    [kind |-> "dict", id |-> e.id, idkind |-> "str",
     district |-> e.district, taluk |-> e.taluk]

\* an entry has just been stored for shop_list[idx]
JustRecorded == pc = "l_next" /\ idx > 0

\* C1: whenever navigate_back_using_breadcrumbs to level n reports success,
\* the breadcrumb of the page shown afterwards has exactly n+1 entries.
C1_AscentSuccessIsVerified ==
    asc.ret => BreadcrumbEntries(asc.after) = LinkIndex(asc.level) + 1

\* C2: the found flag stored for a requested entry is true if and only if
\* its id is the code of a shop of the hierarchy (of the hinted district and
\* taluk when hints are given), whatever the navigation steps did.
C2_FoundIffPresent ==
    JustRecorded =>
        (results.results[cur.shop_id].found
            <=> Present(cur.shop_id, cur.known_district, cur.known_taluk))

\* C3: after a breadcrumb ascent returned failure no forward transition is
\* attempted before a re-navigation from the root.
C3_ResyncAfterFailedAscent == ~hist.fwd_after_fail

\* C4: a lookup with a district hint descends into no other district, and
\* with a district and a taluk hint into no other taluk.
C4_OnlyHintedPlaces ==
    /\ Truthy(cur.known_district) => hist.dvisited \subseteq {cur.known_district}
    /\ Truthy(cur.known_district) /\ Truthy(cur.known_taluk)
            => hist.tvisited \subseteq {cur.known_taluk}

\* C5: the search for one id stops at the first taluk whose shop table holds
\* the id: once matched, the lookup descends into no further district or
\* taluk, the place it returns is the place of the last descent, and every
\* entry stored as found names the district and taluk whose shop table holds
\* the id.
C5_StopsAtFirstMatch ==
    /\ ~hist.after_match
    /\ cur.matched =>
        /\ pc \in {"f_visit", "f_back_taluk", "f_back_district", "f_back_state",
                   "l_record", "l_next", "l_finally", "done", "raised"}
        /\ InList(cur.shop_id, ShopsOf(cur.district, cur.taluk))
    /\ pc = "l_record" /\ cur.found => cur.matched
    /\ \A id \in DOMAIN results.results :
        results.results[id].found =>
            InList(id, ShopsOf(results.results[id].district,
                               results.results[id].taluk))

\* C5 witness: S1 was matched in the first taluk of the first district and
\* the lookup returns it after descending into D1 and T1 only, T2 and D2
\* still unvisited.
C5_Witness ==
    /\ pc = "l_record"
    /\ cur.found
    /\ cur.shop_id = "S1"
    /\ cur.known_district = None
    /\ hist.dvisited = {"D1"}
    /\ hist.tvisited = {"T1"}

\* C6: normalisation treats every entry of "shops" by itself: a plain
\* identifier becomes {id} without hints, an object keeps its id and hints.
C6_NormalizedPerEntry ==
    pc \notin {"read", "returned"} =>
        shop_list = [i \in 1..Len(input.shops) |-> NormalizedEntry(input.shops[i])]

\* C7: a run that created a browser session has executed driver.quit exactly
\* once when it ends.
C7_SessionDestroyed ==
    pc \in Ended /\ driver # "none" => quits = 1

\* C8: no exception propagates out of process_shop_list_json.
C8_NeverRaises == pc # "raised"

\* C9: every requested shop id has an entry in the written results document.
C9_EveryIdHasEntry ==
    pc = "done" =>
        \A i \in 1..Len(input.shops) : input.shops[i].id \in DOMAIN disk.results

\* C10: when a lookup begins, the document on durable storage holds the
\* outcome of every lookup completed before.
C10_PersistedBeforeNextShop ==
    pc = "f_main" /\ idx > 1 =>
        /\ disk.written
        /\ \A i \in 1..(idx - 1) : input.shops[i].id \in DOMAIN disk.results

\* the values of the status field of a shop record
StatusValues == {"Online", "Offline", "Unknown"}

\* C17: for every shop page whose visible text contains the word "offline"
\* and also the label "online status", the status the visit records is
\* Offline.
C17_OfflineWordWins ==
    probe.kind = "status" /\ probe.done
        /\ BodyHas(probe.arg, "offline") /\ BodyHas(probe.arg, "online status")
    => probe.out.returned = "Offline"

\* C18: the status a shop visit returns and the status main stores in the
\* summary are each exactly one of Online, Offline and Unknown, for every
\* page content.
C18_StatusIsEnumerated ==
    probe.kind = "status" /\ probe.done
    => probe.out.returned \in StatusValues /\ probe.out.summary \in StatusValues

\* C19: a data row of c cells under h headers is extracted to a mapping of
\* c keys, the cells beyond the headers under the synthesized keys Column{i},
\* in every extraction loop.
C19_ExtractionIsTotal ==
    probe.kind = "row" /\ probe.done
    => /\ Cardinality(DOMAIN probe.out) = probe.arg.cells
       /\ \A i \in (Len(probe.arg.headers) + 1)..probe.arg.cells :
            ColumnKey(i - 1) \in DOMAIN probe.out

\* the typed failure value of a forward transition
FailureValue(fail) ==
    CASE fail = "table" -> "TableNotFound"
      [] fail = "row" -> "RowNotFound"

\* C20: a forward transition that cannot resolve its table or its target row
\* does not raise and returns a failure value that names which of the two
\* happened.
C20_TypedFailure ==
    probe.kind = "forward" /\ probe.done
        /\ probe.out.fail \in {"table", "row"}
    => probe.out.ret = FailureValue(probe.out.fail)


\* C13: in main the session shows the parent level when an iteration of a
\* loop begins: the State page when the next district is about to be
\* entered, the page of the current district when the next taluk is about
\* to be entered
C13_ParentLevelAtIteration ==
    /\ pc = "m_district" /\ loc.di <= Len(loc.districts) => page = StatePage
    /\ pc = "m_taluk" /\ loc.ti <= Len(loc.taluks) =>
            page = DistrictPage(loc.district)


\* C14: in main, when a shop of a taluk has been visited and the next shop
\* of the same taluk is about to be visited, the session shows the page of
\* that taluk with its table of shops
C14_BackAtTalukBeforeNextShop ==
    pc = "m_shop" /\ loc.si > 1 /\ loc.si <= Len(loc.shops) =>
        page = TalukPage(loc.district, loc.taluk)


\* the shops main has attempted in the current taluk when its shop loop is
\* over
Attempted == {ShopCode(loc.shops[i]) : i \in 1..Len(loc.shops)}

\* C15: when the shop loop of a taluk is over, the record of the taluk in
\* the summary holds one entry for every shop that was attempted,
\* whether the visit succeeded or failed
C15_EveryAttemptRecorded ==
    pc = "m_taluk_back" =>
        DOMAIN summary.districts[loc.district].taluks[loc.taluk].shops = Attempted


\* C16: main with a single target shop ends normally, after its loops have
\* gone through all districts, and every taluk record of the summary holds
\* exactly the target shop if the taluk lists it and no shop otherwise
C16_ShopFilter ==
    pc = "m_done" /\ Truthy(args.shop) /\ loc.districts # <<>> =>
        /\ loc.di > Len(loc.districts)
        /\ \A d \in DOMAIN summary.districts :
            \A t \in DOMAIN summary.districts[d].taluks :
                DOMAIN summary.districts[d].taluks[t].shops =
                    {args.shop} \cap {ShopsOf(d, t)[i] : i \in 1..Len(ShopsOf(d, t))}


\* C11: when the process has crashed after the summary was written at least
\* once, also during a later write, the file crawl_summary.json holds a
\* whole, well-formed document
C11_CrashLeavesWholeSummary ==
    pc = "crashed" /\ persisted > 0 => summary_file.state = "complete"


\* C12: aggregation is append-only: an entry of the results of the targeted
\* lookup, once stored under a shop id, is neither replaced, changed nor
\* removed by a later step of the run
C12_AppendOnly ==
    [][\A id \in DOMAIN results.results :
            /\ id \in DOMAIN results.results'
            /\ results.results'[id] = results.results[id]]_vars


\* the navigation depth of a page: 0 outside the hierarchy, State 1,
\* District 2, Taluk 3, Shop 4
Depth(pg) ==
    CASE pg.level = "state" -> 1
      [] pg.level = "district" -> 2
      [] pg.level = "taluk" -> 3
      [] pg.level = "shop" -> 4
      [] OTHER -> 0

\* C21: two breadcrumb ascents in a row never increase the navigation depth
\* and never leave the hierarchy above State; an ascent that changes the
\* page ends at the level asked for; from a shop page, with both clicks
\* applied, ascend-to-District then ascend-to-State shows the page of the
\* shop's district and then the State page
C21_AscentsNeverDescend ==
    probe.kind = "ascents" /\ probe.done =>
        LET a == probe.arg
            out == probe.out
        IN  /\ Depth(out.page1) <= Depth(a.page)
            /\ Depth(out.page2) <= Depth(out.page1)
            /\ Depth(a.page) >= 1 => Depth(out.page2) >= 1
            /\ out.page1 # a.page => out.page1.level = a.first
            /\ out.page2 # out.page1 => out.page2.level = a.second
            /\ ( /\ a.page.level = "shop" /\ a.alive
                 /\ a.first = "district" /\ a.second = "state"
                 /\ a.o1 = "applied" /\ a.o2 = "applied" )
               => /\ out.page1 = DistrictPage(a.page.d)
                  /\ out.page2 = StatePage

\* C21: the two ascents from the page of shop S1 have been made
C21_Witness ==
    /\ probe.kind = "ascents" /\ probe.done
    /\ probe.arg.page = ShopPage("D1", "T1", "S1")
    /\ probe.arg.first = "district" /\ probe.arg.second = "state"
    /\ probe.out.ret1 /\ probe.out.ret2
    /\ probe.out.page1 = DistrictPage("D1")
    /\ probe.out.page2 = StatePage


\* C22: for every path reached by forward transitions from the State page,
\* a successful ascent to a shallower level followed by the descent along
\* the path ends on the page shown before the ascent, a page with the same
\* level, path and table; when the click of the ascent was applied, the
\* descent succeeds and returns the table contents returned before
C22_RoundTrip ==
    ( /\ probe.kind = "roundtrip" /\ probe.done
      /\ probe.out.reached /\ probe.out.ascended
      /\ LinkIndex(probe.arg.level) + 1 < Depth(probe.out.before.page) )
    => /\ probe.out.after.page = probe.out.before.page
       /\ DataRows(probe.out.after.page) = DataRows(probe.out.before.page)
       /\ probe.arg.o = "applied" =>
            /\ probe.out.after.ok
            /\ probe.out.after.snapshot = probe.out.before.snapshot

\* C22: the shops of taluk T4 of district D2 were reached, the session went
\* up to the State page and came down again to the same table
C22_Witness ==
    /\ probe.kind = "roundtrip" /\ probe.done
    /\ probe.arg = [path |-> [d |-> "D2", t |-> "T4", s |-> ""],
                    level |-> "state", o |-> "applied"]
    /\ probe.out.reached /\ probe.out.ascended
    /\ probe.out.top = StatePage
    /\ probe.out.after.ok
    /\ probe.out.after.page = TalukPage("D2", "T4")
    /\ Len(probe.out.after.snapshot) = 2


\* the shop entries of a summary whose shop has the given status on its page
EntriesWith(sm, status) ==
    { x \in AllShops :
        /\ x[1] \in DOMAIN sm.districts
        /\ x[2] \in DOMAIN sm.districts[x[1]].taluks
        /\ x[3] \in DOMAIN sm.districts[x[1]].taluks[x[2]].shops
        /\ StatusOf(x[3]) = status }

\* C23: in main every shop entry of the summary carries the status
\* extracted from the page of the shop, and the online and offline counters
\* of the summary, of every district and of every taluk count the entries
\* whose shop is Online and Offline
C23_CountersFollowStatus ==
    \A status \in {"Online", "Offline"} :
        LET counter == IF status = "Online" THEN "online_shops" ELSE "offline_shops"
            entries == EntriesWith(summary, status)
        IN  /\ summary[counter] = Cardinality(entries)
            /\ \A x \in entries :
                /\ summary.districts[x[1]].taluks[x[2]].shops[x[3]].status = status
                /\ summary.districts[x[1]][counter] =
                        Cardinality({y \in entries : y[1] = x[1]})
                /\ summary.districts[x[1]].taluks[x[2]][counter] =
                        Cardinality({y \in entries : y[1] = x[1] /\ y[2] = x[2]})


\* C24: in the results document written by process_shop_list_json the
\* shops found and the shops not found add up to the shops checked
C24_CountsAddUp ==
    disk.written =>
        disk.shops_found + disk.shops_not_found = disk.total_shops_checked


\* C25: a call of navigate_to_district_and_get_taluks or of
\* navigate_to_taluk_and_get_shops that returns None leaves the session on
\* the page it was called on
C25_FailureLeavesPage ==
    ( /\ probe.kind = "forward" /\ probe.done
      /\ probe.arg.op \in {"district", "taluk"}
      /\ probe.out.ret = "None" )
    => probe.out.page = probe.arg.page


\* C26: in the details of a shop page a key set by the status detection
\* keeps its value through the sweeps over the tables and the labels, and a
\* key set by the sweep over the tables keeps its value through the sweep
\* over the labels
C26_MergeKeepsEarlierKeys ==
    probe.kind = "details" /\ probe.done =>
        /\ \A k \in DOMAIN probe.out.status_pass :
                probe.out.shop_details[k] = probe.out.status_pass[k]
        /\ \A k \in DOMAIN probe.out.table_sweep :
                probe.out.shop_details[k] = probe.out.table_sweep[k]


\* every data row of every table that has a bill header, in page order
RECURSIVE AllTransactionRows(_, _)
AllTransactionRows(tables, t) ==
    IF t > Len(tables) THEN <<>>
    ELSE (IF \E i \in 1..Len(tables[t].headers) :
                HeaderLower(tables[t].headers[i]) \in BillHeaders
          THEN [r \in 1..Len(tables[t].rows) |->
                    [table |-> t, row |-> r, cells |-> tables[t].rows[r]]]
          ELSE <<>>)
         \o AllTransactionRows(tables, t + 1)

\* C27: the transactions collection of extract_shop_details holds every
\* data row of every table with a bill header, in row order, the rows of an
\* earlier transaction table before those of a later one
C27_TransactionsCollected ==
    probe.kind = "transactions" /\ probe.done =>
        probe.out.transactions = AllTransactionRows(probe.arg, 1)


\* the positions of the tables of a page that have a bill header and a row
TransactionTables(tables) ==
    { i \in 1..Len(tables) :
        bill_number_index(tables[i].headers) # 0 /\ Len(tables[i].rows) > 0 }

\* C28: when a table with a bill header and at least one row exists on the
\* shop page, last_transaction is populated from the first row of that
\* table, at whatever position the table is: its bill number is the cell
\* under the bill header when the row has that cell
C28_LastTransactionFromBillTable ==
    probe.kind = "last_bill" /\ probe.done =>
        \A i \in TransactionTables(probe.arg) :
            /\ probe.out.populated
            /\ probe.out.table = i
            /\ probe.arg[i].rows[1] >= bill_number_index(probe.arg[i].headers)
                => probe.out.bill_number = bill_number_index(probe.arg[i].headers)


\* C29: whatever step of the drill-down fails, the shop visit returns a
\* record whose last_transaction is populated from the row of the table
C29_DrillDownDegrades ==
    probe.kind = "drill" /\ probe.done /\ probe.arg.fail_at # "none" =>
        probe.out.ret = "details" /\ probe.out.populated

\* C30: when the bill dialog was opened during a shop visit, a close action
\* (the click on the close control or the Escape key) is made before the
\* visit returns
C30_DialogClosed ==
    probe.kind = "drill" /\ probe.done /\ probe.out.opened =>
        probe.out.close_action

\* the selectors of the chain a resolve probe names
ChainOf(a) ==
    IF a.chain = "taluk" THEN taluk_table_selectors ELSE shop_table_selectors

\* element i of a page is acceptable under the s-th selector of a chain
Acceptable(chain, elements, s, i) ==
    chain[s] \in elements[i].matches /\ elements[i].rows >= 2

\* C31: table resolution returns the first element, in chain order and then
\* in page order, that has at least 2 body rows; it reports "no table" only
\* when no selector of the chain matches such an element, so a selector
\* whose matches are all too small does not end the search; resolving the
\* same page again returns the same element
C31_FirstAcceptableInChainOrder ==
    (probe.kind = "resolve" /\ probe.done) =>
        LET chain == ChainOf(probe.arg)
            elements == probe.arg.elements
            k == probe.out.table
        IN  /\ probe.out.again = k
            /\ k = 0 <=> ~ \E s \in 1..Len(chain), i \in 1..Len(elements) :
                                Acceptable(chain, elements, s, i)
            /\ k # 0 =>
                    /\ k \in 1..Len(elements)
                    /\ \E s \in 1..Len(chain) :
                        /\ Acceptable(chain, elements, s, k)
                        /\ \A i \in 1..(k - 1) : ~Acceptable(chain, elements, s, i)
                        /\ \A r \in 1..(s - 1), i \in 1..Len(elements) :
                                ~Acceptable(chain, elements, r, i)

\* C31: a page whose only match of an earlier selector is too small and
\* whose later element is acceptable under a later selector: the later
\* element is returned
C31_Witness ==
    /\ probe.kind = "resolve" /\ probe.done
    /\ Len(probe.arg.elements) = 2
    /\ probe.arg.elements[1] = [matches |-> {".ui-datatable"}, rows |-> 1]
    /\ probe.arg.elements[2] = [matches |-> {"table:not(.ui-menu-list)"}, rows |-> 2]
    /\ probe.out.table = 2

\* C32: between a navigation action and the next read of the page a step
\* that waits for the page update to finish is executed, so the page is
\* never read while the update the action has started is unfinished
C32_SynchronizedBeforeRead ==
    (probe.kind = "sync" /\ probe.done) =>
        probe.out.waited /\ probe.out.left = 0

\* C33: wait_for_ajax never raises; on a page that exposes the counter of
\* requests in flight, shown by a live session, it returns only when the
\* ready state of the document is complete and the counter is zero, and it
\* uses the fixed fallback delay only on a page that exposes no counter
C33_AjaxSynchronizer ==
    (probe.kind = "ajax" /\ probe.done) =>
        /\ ~probe.out.raised
        /\ (probe.arg.alive /\ probe.arg.jquery) =>
                /\ probe.out.ready = "complete"
                /\ ~probe.out.active
                /\ ~probe.out.fallback

RECURSIVE TotalShops(_)
TotalShops(records) ==
    IF DOMAIN records = {}
    THEN 0
    ELSE LET k == CHOOSE x \in DOMAIN records : TRUE
         IN  records[k].total_shops
             + TotalShops([x \in (DOMAIN records) \ {k} |-> records[x]])

\* C35: in every summary written to crawl_summary.json the total_shops of a
\* taluk is the number of shop entries under the taluk, the total_shops of
\* a district is the sum of the total_shops of its taluks, and the global
\* total_shops is the sum over the districts
C35_TotalsConsistent ==
    summary_file.state = "complete" =>
        LET doc == summary_file.doc IN
        /\ doc.total_shops = TotalShops(doc.districts)
        /\ \A d \in DOMAIN doc.districts :
            /\ doc.districts[d].total_shops = TotalShops(doc.districts[d].taluks)
            /\ \A t \in DOMAIN doc.districts[d].taluks :
                    doc.districts[d].taluks[t].total_shops =
                        Cardinality(DOMAIN doc.districts[d].taluks[t].shops)

\* C36: in the results document written by process_shop_list_json
\* shops_found is the number of entries with found = true, shops_not_found
\* the number of entries with found = false, and the online and offline
\* shops together are at most the shops found, also for a list that
\* repeats a shop id
C36_CountersMatchEntries ==
    disk.written =>
        /\ disk.shops_found =
                Cardinality({id \in DOMAIN disk.results : disk.results[id].found})
        /\ disk.shops_not_found =
                Cardinality({id \in DOMAIN disk.results : ~disk.results[id].found})
        /\ disk.online_shops + disk.offline_shops <= disk.shops_found

\* the outcome (found, district, taluk) of the lookup of an entry on a
\* session that has made no lookup before
FreshOutcome(e) ==
    CASE e.idkind # "str" -> <<FALSE, None, None>>
      [] e.id = "S1" /\ e.district = None -> <<TRUE, "D1", "T1">>
      [] e.id = "S6" /\ e.district \in {"D2", "d2"} -> <<TRUE, "D2", "T4">>
      [] e.id = "S3" /\ e.district = "D1" -> <<TRUE, "D1", "T2">>
      [] OTHER -> <<FALSE, None, None>>

C38_StateCheckIsExact ==
    (probe.kind = "state_check" /\ probe.done /\ probe.out.ret) =>
        LET a == probe.arg IN
        /\ a.page.level = a.expected_level
        /\ a.expected_level \in {"district", "taluk", "shop"} => a.page.d = a.district
        /\ a.expected_level \in {"taluk", "shop"} => a.page.t = a.taluk

\* C39: in the targeted lookup, once the requested id was found in the shop
\* table of a taluk and the visit of the shop page has not delivered a
\* status, the lookup is recorded as found with that district and taluk and
\* the status Unknown; recording it adds one to shops_found and nothing to
\* online_shops and offline_shops
C39_FailedVisitStillFound ==
    /\ []((pc \in {"l_next", "l_finally", "done", "raised"} /\ cur.matched
           /\ cur.status \notin {"Online", "Offline"}) =>
            /\ cur.shop_id \in DOMAIN results.results
            /\ results.results[cur.shop_id] =
                    [found |-> TRUE, district |-> cur.district,
                     taluk |-> cur.taluk, status |-> "Unknown"])
    /\ [][(pc = "l_record" /\ cur.matched /\ cur.status = "Unknown") =>
            /\ results'.shops_found = results.shops_found + 1
            /\ results'.online_shops = results.online_shops
            /\ results'.offline_shops = results.offline_shops]_vars

\* C40: a request to the dashboard, /status or /results that runs beside the
\* lookup is answered either as "no document yet" (pending, or running on
\* the dashboard) or with the values of a document that was written
\* completely, and no request changes the file
C40_ReadersSeeWholeDocument ==
    /\ [](probe.kind = "serve" /\ probe.response.endpoint # "none" =>
            \/ probe.response.status \in {"pending", "running"}
            \/ /\ probe.response.status = "success"
               /\ disk.written
               /\ probe.response.values = DocumentValues(disk))
    /\ [][probe'.response # probe.response =>
            disk' = disk /\ probe'.writing = probe.writing]_vars

=============================================================================
